---------------------------- MODULE Spec2Model ----------------------------
(***************************************************************************)
(* LiDAR telegram pipeline of the Autonomous-Navigation-Rover repository:  *)
(* telegram framing (Lidar_pose.py, Realtime_Lidar_811_points.py,          *)
(* LIDAR/lidar_live_data.py, realtime_lidar.py), scan decoding and         *)
(* resampling, polar-to-Cartesian projection, ICP scan matching and pose   *)
(* chaining (Lidar_pose.py, slam_map.py).                                  *)
(*                                                                         *)
(* Real numbers are modelled exactly: a rational is a pair <<num, den>>    *)
(* in lowest terms with den > 0.  Floating-point rounding is not modelled. *)
(***************************************************************************)
EXTENDS Integers, Sequences, FiniteSets, TLC

VARIABLES
    variant,    \* which acquisition loop runs: "pose", "poll" or "readframe"
    wire,       \* bytes the device has sent and the socket has not delivered yet
    stream,     \* every byte the device writes during the run (never changes)
    buffer,     \* the receive buffer (`buffer`, `self.buffer`, `data`)
    emitted,    \* blocks handed to the decoder, in order
    pc,         \* position of the acquisition loop
    parts,      \* the tokens of the telegram being decoded (block.split())
    values,     \* parse_and_resample: per-sample ranges before resampling
    polar,      \* parse_and_resample: its result
    cart,       \* polar_to_cartesian(polar), as persisted in the JSON file
    scanA,      \* load_tim781_scans: the point cloud handed to icp_2d
    distances,  \* parse_ascii_frame: its result
    points,     \* polar_to_point_objects(distances), as persisted
    scanB,      \* scan_to_xy(points): the point cloud of slam_map.py
    dpc,        \* position of the decoding pipeline
    program,    \* which pose computation runs: "Lidar_pose" or "slam_map"
    frames,     \* slam_map.main: the point lists of the frames of the file
    all_world_points,  \* slam_map.main: the scans placed in the world frame
    scans,      \* the scans the poses are computed from, in order
    max_iterations,  \* the iteration cap handed to icp_2d
    scan_k,     \* compute_poses_from_scans: the loop variable k
    poses,      \* compute_poses_from_scans: absolute poses so far
    src,        \* icp_2d: the source points it was called with
    dst,        \* icp_2d: the destination points it was called with
    T,          \* icp_2d: the accumulated transform
    src_transformed,  \* icp_2d: the working copy of the source
    prev_error, \* icp_2d: the error of the previous iteration
    iter,       \* icp_2d: the loop variable i
    fit,        \* icp_2d: the last result of best_fit_transform
    result,     \* icp_2d: the returned (T, error, iterations)
    ipc,        \* position of the pose computation
    compose_in, \* compose_transform / transform_points: R1, t1, R2, t2, pts
    compose_out,\* the composed transform and the transformed points
    cpc,        \* position of the composition harness
    grid_H,     \* slam_map.main: H of build_map, the grid of counts
    grid_extent,\* slam_map.main: extent of build_map
    closed,     \* the peer closed the connection: recv returns no bytes
    script,     \* which acquisition program runs and persists scans
    ppc,        \* its position
    phase,      \* "run" in the loop, "final" in the handler that ends it
    cause,      \* what ended the run: "none", "ctrlc", or "error" of a write
    taken,      \* how many telegrams were decoded so far
    inflight,   \* the scan the loop body holds (`cart`, `points`, `xs`)
    mem_frames, \* `frames`: the scans kept in memory
    frame_id,   \* `frame_id`: the count printed as captured
    first,      \* Lidar_Continuous_Data: `first`
    out_file,   \* the content of the output file
    tmp_file,   \* safe_atomic_write_json: the content of tmp_path
    leaked,     \* a temporary file was left behind
    telegram,   \* the tokens of the frame handed to one of the decoders
    layout,     \* whether the device sends a scale offset after the scale factor
    decoder,    \* which decoder it is handed to
    decoded     \* what the decoder and its caller made of the frame

framerVars == <<variant, wire, stream, buffer, emitted, pc>>

decodeVars == <<parts, values, polar, cart, scanA, distances, points, scanB, dpc>>

icpVars == <<program, frames, all_world_points, scans, max_iterations, scan_k, poses, src, dst, T, src_transformed,
             prev_error, iter, fit, result, ipc>>

composeVars == <<compose_in, compose_out, cpc>>

mapVars == <<grid_H, grid_extent>>

sockVars == <<closed>>

persistVars == <<script, ppc, phase, cause, taken, inflight, mem_frames,
                 frame_id, first, out_file, tmp_file, leaked>>

parseVars == <<telegram, layout, decoder, decoded>>

otherVars == <<composeVars, mapVars, sockVars, persistVars, parseVars>>

vars == <<framerVars, decodeVars, icpVars, otherVars>>

ComposeIdle ==
    /\ compose_in = <<>>
    /\ compose_out = <<>>
    /\ cpc = "idle"

MapIdle ==
    /\ grid_H = <<>>
    /\ grid_extent = <<>>

SockIdle == closed = FALSE

PersistIdle ==
    /\ script = "none"
    /\ ppc = "idle"
    /\ phase = "idle"
    /\ cause = "none"
    /\ taken = 0
    /\ inflight = 0
    /\ mem_frames = <<>>
    /\ frame_id = 0
    /\ first = TRUE
    /\ out_file = <<>>
    /\ tmp_file = <<>>
    /\ leaked = FALSE

ParseIdle ==
    /\ telegram = <<>>
    /\ layout = "none"
    /\ decoder = "none"
    /\ decoded = <<>>

OtherIdle == ComposeIdle /\ MapIdle /\ SockIdle /\ PersistIdle /\ ParseIdle

IcpIdle ==
    /\ program = "none"
    /\ frames = <<>>
    /\ all_world_points = <<>>
    /\ scans = <<>>
    /\ max_iterations = 0
    /\ scan_k = 0
    /\ poses = <<>>
    /\ src = <<>>
    /\ dst = <<>>
    /\ T = <<>>
    /\ src_transformed = <<>>
    /\ prev_error = <<>>
    /\ iter = 0
    /\ fit = <<>>
    /\ result = <<>>
    /\ ipc = "idle"

(***************************************************************************)
(* Bounds of the model.                                                    *)
(***************************************************************************)
MaxStream == 5      \* longest byte stream put on the wire
MaxChunk == 3       \* most bytes one recv() returns
MaxSamples == 4     \* most range tokens a modelled telegram carries
HexCap == 67108864  \* values of int(tok, 16) saturate here (2^26)

(***************************************************************************)
(* Generic sequence helpers.                                               *)
(***************************************************************************)
SeqsUpTo(S, n) == UNION {[1..k -> S] : k \in 0..n}

Contains(s, x) == \E i \in 1..Len(s) : s[i] = x

\* Python's s.find(x, from): least 0-based position >= from holding x, or -1.
Find(s, x, from) ==
    IF \E i \in (from + 1)..Len(s) : s[i] = x
    THEN (CHOOSE i \in (from + 1)..Len(s) :
              /\ s[i] = x
              /\ \A j \in (from + 1)..(i - 1) : s[j] # x) - 1
    ELSE -1

\* Python's s[lo:hi] with 0 <= lo, 0-based, hi exclusive.
Slice(s, lo, hi) ==
    LET h == IF hi > Len(s) THEN Len(s) ELSE hi
    IN  IF lo >= h THEN <<>> ELSE [i \in 1..(h - lo) |-> s[lo + i]]

(***************************************************************************)
(* Exact rational arithmetic: <<n, d>> with d > 0, in lowest terms.        *)
(***************************************************************************)
Abs(n) == IF n < 0 THEN -n ELSE n

RECURSIVE GCD(_, _)
GCD(a, b) == IF b = 0 THEN a ELSE GCD(b, a % b)

Rat(n, d) ==
    LET g == GCD(Abs(n), Abs(d))
        sg == IF d < 0 THEN -1 ELSE 1
    IN  <<sg * (n \div g), sg * (d \div g)>>

RInt(n) == <<n, 1>>
Zero == RInt(0)
LCM(a, b) == (a \div GCD(a, b)) * b
RAdd(a, b) ==
    LET l == LCM(a[2], b[2])
    IN  Rat(a[1] * (l \div a[2]) + b[1] * (l \div b[2]), l)
RSub(a, b) ==
    LET l == LCM(a[2], b[2])
    IN  Rat(a[1] * (l \div a[2]) - b[1] * (l \div b[2]), l)
RMul(a, b) ==
    LET g1 == GCD(Abs(a[1]), b[2])
        g2 == GCD(Abs(b[1]), a[2])
    IN  Rat((a[1] \div g1) * (b[1] \div g2), (a[2] \div g2) * (b[2] \div g1))
RDiv(a, b) ==
    IF b[1] = 0 THEN Rat(a[1] * b[2], 0) ELSE RMul(a, Rat(b[2], b[1]))
RLt(a, b) ==
    LET l == LCM(a[2], b[2])
    IN  a[1] * (l \div a[2]) < b[1] * (l \div b[2])
RLe(a, b) ==
    LET l == LCM(a[2], b[2])
    IN  a[1] * (l \div a[2]) <= b[1] * (l \div b[2])

\* Python's None (a null range, a null coordinate).
None == <<>>

(***************************************************************************)
(* Tokens.  A token is the sequence of its characters, so that int(h, 16)  *)
(* is computed digit by digit.  The modelled tokens carry no sign, prefix  *)
(* or underscore.                                                          *)
(***************************************************************************)
HexDigits == <<"0", "1", "2", "3", "4", "5", "6", "7",
               "8", "9", "A", "B", "C", "D", "E", "F">>

IsHexDigit(c) == \E i \in 1..16 : HexDigits[i] = c
HexDigitVal(c) == (CHOOSE i \in 1..16 : HexDigits[i] = c) - 1

\* int(tok, 16) succeeds
HexOk(tok) == Len(tok) > 0 /\ \A i \in 1..Len(tok) : IsHexDigit(tok[i])

\* int(tok, 16).  Python integers are unbounded; the checker's are 32 bits
\* wide, so a value of HexCap or more is kept as HexCap.  Such values occur
\* only in the telegram header, where the code compares them with MAX_DIST.
RECURSIVE HexVal(_)
HexVal(tok) ==
    IF tok = <<>> THEN 0
    ELSE LET hi == HexVal(SubSeq(tok, 1, Len(tok) - 1))
         IN  IF hi >= HexCap THEN HexCap
             ELSE 16 * hi + HexDigitVal(tok[Len(tok)])

\* The token the device writes for the number n.
RECURSIVE HexTok(_)
HexTok(n) ==
    IF n < 16 THEN <<HexDigits[n + 1]>>
    ELSE HexTok(n \div 16) \o <<HexDigits[(n % 16) + 1]>>

LMDscandata == <<"L", "M", "D", "s", "c", "a", "n", "d", "a", "t", "a">>
DIST1 == <<"D", "I", "S", "T", "1">>
RSSI1 == <<"R", "S", "S", "I", "1">>

(***************************************************************************)
(* Lidar_pose.py / Realtime_Lidar_811_points.py: parse_and_resample.       *)
(***************************************************************************)
POINT_COUNT == 3     \* 811 in the source; scaled down, any value >= 2
START_ANGLE == RInt(-45)
SPAN_DEG == RInt(270)
CANON_RES == RDiv(SPAN_DEG, RInt(POINT_COUNT - 1))

\* lerp(x0, y0, x1, y1, x)
lerp(x0, y0, x1, y1, x) ==
    IF x1 = x0 THEN y0
    ELSE RAdd(y0, RDiv(RMul(RSub(y1, y0), RSub(x, x0)), RSub(x1, x0)))

\* idx = parts.index("DIST1"); count = int(parts[idx + 4], 16)
\* An IndexError or ValueError makes parse_and_resample return None.
CountOk(p) ==
    /\ Contains(p, DIST1)
    /\ Find(p, DIST1, 0) + 4 < Len(p)
    /\ HexOk(p[Find(p, DIST1, 0) + 5])

Count(p) == HexVal(p[Find(p, DIST1, 0) + 5])

\* start = idx + 5; end = start + count
\* if "RSSI1" in parts[start:]: end = parts.index("RSSI1")
\* end = min(end, len(parts)); raw_hex = parts[start:end]
RawHex(p) ==
    LET start == Find(p, DIST1, 0) + 5
        end0 == IF Contains(Slice(p, start, Len(p)), RSSI1)
                THEN Find(p, RSSI1, 0)
                ELSE start + Count(p)
        end == IF end0 < Len(p) THEN end0 ELSE Len(p)
    IN  Slice(p, start, end)

\* values.append(int(h, 16) / 1000.0), or None when int() raises;
\* if len(values) == 0: values = [None] * POINT_COUNT
Values(raw) ==
    IF Len(raw) = 0 THEN [i \in 1..POINT_COUNT |-> None]
    ELSE [i \in 1..Len(raw) |->
              IF HexOk(raw[i]) THEN Rat(HexVal(raw[i]), 1000) ELSE None]

\* Mutant of MeasuredAngles: the step is SPAN_DEG / len(values), so that a
\* full-length scan does not lie on the canonical grid.
MeasuredAngles_OffGrid(n) ==
    IF n = 1 THEN <<START_ANGLE>>
    ELSE LET step == RDiv(SPAN_DEG, RInt(n))
         IN  [i \in 1..n |-> RAdd(START_ANGLE, RMul(RInt(i - 1), step))]

\* measured_angles
MeasuredAngles(n) ==
    IF n = 1 THEN <<START_ANGLE>>
    ELSE LET step == RDiv(SPAN_DEG, RInt(n - 1))
         IN  [i \in 1..n |-> RAdd(START_ANGLE, RMul(RInt(i - 1), step))]

\* Mutant of CanonicalAngles: range(POINT_COUNT - 1), one angle short.
CanonicalAngles_Short ==
    [i \in 1..(POINT_COUNT - 1) |-> RAdd(START_ANGLE, RMul(RInt(i - 1), CANON_RES))]

\* canonical_angles = [START_ANGLE + i * CANON_RES for i in range(POINT_COUNT)]
CanonicalAngles ==
    [i \in 1..POINT_COUNT |-> RAdd(START_ANGLE, RMul(RInt(i - 1), CANON_RES))]

\* The indices of the samples that are not None, in order.
RECURSIVE ValidIdx(_, _)
ValidIdx(v, i) ==
    IF i > Len(v) THEN <<>>
    ELSE (IF v[i] # None THEN <<i>> ELSE <<>>) \o ValidIdx(v, i + 1)

\* Mutant of Advance: the while loop left out, the bracket never moves.
Advance_Stuck(vi, ang, va) == vi

\* while vi + 1 < len(va) and va[vi + 1] < ang: vi += 1     (vi is 0-based)
RECURSIVE Advance(_, _, _)
Advance(vi, ang, va) ==
    IF vi + 1 < Len(va) /\ RLt(va[vi + 2], ang)
    THEN Advance(vi + 1, ang, va)
    ELSE vi

\* for ang in canonical_angles: ...   from the j-th canonical angle on,
\* with the bracket index vi carried from one angle to the next.
RECURSIVE ResampleLoop(_, _, _, _)
ResampleLoop(j, vi, va, vr) ==
    IF j > Len(CanonicalAngles) THEN <<>>
    ELSE LET ang == CanonicalAngles[j]
         IN  IF RLe(ang, va[1])
             THEN <<[angle |-> ang, range |-> vr[1]]>>
                      \o ResampleLoop(j + 1, vi, va, vr)
             ELSE IF RLe(va[Len(va)], ang)
             THEN <<[angle |-> ang, range |-> vr[Len(vr)]]>>
                      \o ResampleLoop(j + 1, vi, va, vr)
             ELSE LET w == Advance(vi, ang, va)
                  IN  <<[angle |-> ang,
                         range |-> lerp(va[w + 1], vr[w + 1],
                                        va[w + 2], vr[w + 2], ang)]>>
                          \o ResampleLoop(j + 1, w, va, vr)

\* The resampling half of parse_and_resample, from the decoded values on.
Resample(v) ==
    LET ma == MeasuredAngles(Len(v))
        vidx == ValidIdx(v, 1)
        va == [k \in 1..Len(vidx) |-> ma[vidx[k]]]
        vr == [k \in 1..Len(vidx) |-> v[vidx[k]]]
    IN  IF Len(vidx) = 0
        THEN [j \in 1..Len(CanonicalAngles) |->
                  [angle |-> CanonicalAngles[j], range |-> None]]
        ELSE IF Len(vidx) = 1
        THEN [j \in 1..Len(CanonicalAngles) |->
                  [angle |-> CanonicalAngles[j], range |-> vr[1]]]
        ELSE ResampleLoop(1, 0, va, vr)

\* parse_and_resample(block): [ok |-> FALSE] stands for None.
ParseAndResample(p) ==
    IF ~CountOk(p) THEN [ok |-> FALSE, pts |-> <<>>]
    ELSE [ok |-> TRUE, pts |-> Resample(Values(RawHex(p)))]

(***************************************************************************)
(* Cartesian points.  cos and sin are not rational: the point              *)
(* (r cos a, r sin a) is kept as <<"pt", r, a>>, and every point with      *)
(* r = 0 is the origin.                                                    *)
(***************************************************************************)
Origin == <<"pt", Zero, Zero>>
NonePoint == <<"none">>     \* x = None, y = None
NaNPoint == <<"nan">>       \* a row [nan, nan] of a float64 array
XY(r, a) == IF r = Zero THEN Origin ELSE <<"pt", r, a>>

\* polar_to_cartesian(points)
polar_to_cartesian(pts) ==
    [i \in 1..Len(pts) |->
        [angle |-> pts[i].angle,
         xy |-> IF pts[i].range = None THEN NonePoint
                ELSE XY(pts[i].range, pts[i].angle)]]

\* load_tim781_scans: np.array([[p["x"], p["y"]] ...], dtype=np.float64)
\* turns a None coordinate into nan and keeps the row.
load_tim781_scan(c) ==
    [i \in 1..Len(c) |-> IF c[i].xy = NonePoint THEN NaNPoint ELSE c[i].xy]

(***************************************************************************)
(* realtime_lidar.py: parse_ascii_frame, polar_to_point_objects;           *)
(* slam_map.py: scan_to_xy.                                                *)
(***************************************************************************)
NUM_POINTS == POINT_COUNT
STEP_ANGLE == RDiv(RSub(RInt(225), START_ANGLE), RInt(NUM_POINTS - 1))
MIN_DIST == 50
MAX_DIST == 25000

\* for tok in tokens[idx+1:]: stop at NUM_POINTS values; a token int()
\* rejects is skipped (continue)
RECURSIVE CollectHex(_, _, _)
CollectHex(toks, i, acc) ==
    IF i > Len(toks) \/ Len(acc) >= NUM_POINTS THEN acc
    ELSE CollectHex(toks, i + 1,
             IF HexOk(toks[i]) THEN Append(acc, HexVal(toks[i])) ELSE acc)

\* parse_ascii_frame(frame_bytes): [ok |-> FALSE] stands for None.
parse_ascii_frame(p) ==
    IF ~Contains(p, LMDscandata) \/ ~Contains(p, DIST1)
    THEN [ok |-> FALSE, distances |-> <<>>]
    ELSE LET got == CollectHex(Slice(p, Find(p, DIST1, 0) + 1, Len(p)), 1, <<>>)
         IN  [ok |-> TRUE,
              distances |-> got \o [i \in 1..(NUM_POINTS - Len(got)) |-> 0]]

\* polar_to_point_objects(distances)
polar_to_point_objects(d) ==
    [i \in 1..Len(d) |->
        LET angle_deg == RAdd(START_ANGLE, RMul(RInt(i - 1), STEP_ANGLE))
        IN  [angle |-> angle_deg,
             xy |-> IF d[i] < MIN_DIST \/ d[i] > MAX_DIST THEN Origin
                    ELSE XY(RInt(d[i]), angle_deg)]]

\* scan_to_xy(points_list): float(None) raises and the handler appends
\* (0.0, 0.0).
scan_to_xy(pl) ==
    [i \in 1..Len(pl) |-> IF pl[i].xy = NonePoint THEN Origin ELSE pl[i].xy]

(***************************************************************************)
(* The decoding pipelines as steps on one telegram.                        *)
(***************************************************************************)
\* The range tokens of the modelled telegrams: zero, two ranges inside
\* [MIN_DIST, MAX_DIST], one above MAX_DIST, and one that is not hexadecimal.
SampleTokens ==
    {<<"0">>, <<"3", "E", "8">>, <<"7", "D", "0">>,
     <<"6", "1", "A", "9">>, <<"Z", "Z">>}

\* sRA LMDscandata ... DIST1 <scale> <start angle> <step> <count> <samples>
Telegram(count, samples, trailer) ==
    <<<<"s", "R", "A">>, LMDscandata, DIST1,
      <<"3", "F", "8", "0", "0", "0", "0", "0">>,
      <<"F", "F", "F", "9", "2", "2", "3", "0">>,
      <<"D", "0", "5">>, HexTok(count)>> \o samples \o trailer

\* The samples of a modelled telegram (the tokens after the count field
\* and before the trailer).
SamplesOf(p) ==
    LET start == Find(p, DIST1, 0) + 5
        stop == IF Contains(p, RSSI1) THEN Find(p, RSSI1, 0) ELSE Len(p)
    IN  Slice(p, start, stop)

Trailers == {<<>>, <<RSSI1, <<"3", "E", "8">>>>}

DecodeInputs ==
    {Telegram(c, s, t) :
        c \in 0..(MaxSamples + 1), s \in SeqsUpTo(SampleTokens, MaxSamples),
        t \in Trailers}

NoScan == [ok |-> FALSE, pts |-> <<>>]
NoDistances == [ok |-> FALSE, distances |-> <<>>]

DecodeIdle ==
    /\ parts = <<>>
    /\ values = <<>>
    /\ polar = NoScan
    /\ cart = <<>>
    /\ scanA = <<>>
    /\ distances = NoDistances
    /\ points = <<>>
    /\ scanB = <<>>
    /\ dpc = "idle"

\* polar = parse_and_resample(packet)       (Lidar_pose.py:176)
DoParseAndResample ==
    /\ dpc = "parse"
    /\ values' = IF CountOk(parts) THEN Values(RawHex(parts)) ELSE <<>>
    /\ polar' = ParseAndResample(parts)
    /\ dpc' = "project"
    /\ UNCHANGED <<parts, cart, scanA, distances, points, scanB>>
    /\ UNCHANGED <<framerVars, icpVars, otherVars>>

\* if polar is None: continue; cart = polar_to_cartesian(polar)
DoPolarToCartesian ==
    /\ dpc = "project"
    /\ cart' = IF polar.ok THEN polar_to_cartesian(polar.pts) ELSE <<>>
    /\ dpc' = "load"
    /\ UNCHANGED <<parts, values, polar, scanA, distances, points, scanB>>
    /\ UNCHANGED <<framerVars, icpVars, otherVars>>

\* timestamps, scans = load_tim781_scans(json_path)
DoLoadScan ==
    /\ dpc = "load"
    /\ scanA' = load_tim781_scan(cart)
    /\ dpc' = "parse_ascii"
    /\ UNCHANGED <<parts, values, polar, cart, distances, points, scanB>>
    /\ UNCHANGED <<framerVars, icpVars, otherVars>>

\* parsed = parse_ascii_frame(raw)          (realtime_lidar.py:190)
DoParseAsciiFrame ==
    /\ dpc = "parse_ascii"
    /\ distances' = parse_ascii_frame(parts)
    /\ dpc' = "point_objects"
    /\ UNCHANGED <<parts, values, polar, cart, scanA, points, scanB>>
    /\ UNCHANGED <<framerVars, icpVars, otherVars>>

\* if not parsed: continue; points = polar_to_point_objects(distances)
DoPolarToPointObjects ==
    /\ dpc = "point_objects"
    /\ points' = IF distances.ok
                 THEN polar_to_point_objects(distances.distances) ELSE <<>>
    /\ dpc' = "scan_to_xy"
    /\ UNCHANGED <<parts, values, polar, cart, scanA, distances, scanB>>
    /\ UNCHANGED <<framerVars, icpVars, otherVars>>

\* pts = scan_to_xy(frames[k])              (slam_map.py:204)
DoScanToXY ==
    /\ dpc = "scan_to_xy"
    /\ scanB' = scan_to_xy(points)
    /\ dpc' = "done"
    /\ UNCHANGED <<parts, values, polar, cart, scanA, distances, points>>
    /\ UNCHANGED <<framerVars, icpVars, otherVars>>

(***************************************************************************)
(* Telegram framing.                                                       *)
(***************************************************************************)
STX == "STX"
ETX == "ETX"
Payload == {"a", "b"}
Byte == {STX, ETX} \cup Payload

\* The telegrams a well-formed stream carries: a stream is a concatenation
\* of STX payload* ETX.
RECURSIVE Telegrams(_)
Telegrams(s) ==
    IF s = <<>> THEN <<>>
    ELSE LET e == Find(s, ETX, 0)
         IN  <<Slice(s, 1, e)>> \o Telegrams(Slice(s, e + 1, Len(s)))

RECURSIVE WellFormed(_)
WellFormed(s) ==
    \/ s = <<>>
    \/ /\ Len(s) >= 2
       /\ s[1] = STX
       /\ LET e == Find(s, ETX, 0)
          IN  /\ e >= 1
              /\ \A i \in 2..e : s[i] \in Payload
              /\ WellFormed(Slice(s, e + 1, Len(s)))

\* while STX in buffer and ETX in buffer
LoopCond(b) == Contains(b, STX) /\ Contains(b, ETX)

\* Mutant of ExtractE: buffer.index(ETX) without the start position.
ExtractE_NoStart(b) == Find(b, ETX, 0)

\* One pass of the extraction loop body on buffer b:
\*   s = buffer.index(STX); e = buffer.index(ETX, s + 1)
\*   packet = buffer[s + 1:e]; buffer = buffer[e + 1:]
\* str.index raises ValueError when no ETX follows the first STX.
ExtractS(b) == Find(b, STX, 0)
ExtractE(b) == Find(b, ETX, ExtractS(b) + 1)
ExtractRaises(b) == LoopCond(b) /\ ExtractE(b) < 0
ExtractPacket(b) == Slice(b, ExtractS(b) + 1, ExtractE(b))
ExtractRest(b) == Slice(b, ExtractE(b) + 1, Len(b))

FramerInit(v, streams) ==
    /\ variant = v
    /\ wire \in streams
    /\ stream = wire
    /\ buffer = <<>>
    /\ emitted = <<>>
    /\ pc = "recv"
    /\ DecodeIdle
    /\ IcpIdle
    /\ OtherIdle

\* data = sock.recv(65535); buffer += data        (Lidar_pose.py:161-162)
\* In LidarClient.poll the recv loop keeps appending until recv raises.
Recv(k) ==
    /\ pc = "recv"
    /\ variant \in {"pose", "poll"}
    /\ k \in 1..MaxChunk
    /\ k <= Len(wire)
    /\ buffer' = buffer \o SubSeq(wire, 1, k)
    /\ wire' = SubSeq(wire, k + 1, Len(wire))
    /\ pc' = IF variant = "poll" THEN "recv" ELSE "extract"
    /\ UNCHANGED <<variant, stream, emitted>>
    /\ UNCHANGED <<decodeVars, icpVars, otherVars>>

\* except socket.timeout: pass   /   except: pass
\* (a connection the peer closed does not time out)
RecvTimeout ==
    /\ pc = "recv"
    /\ variant \in {"pose", "poll"}
    /\ ~closed
    /\ pc' = "extract"
    /\ UNCHANGED <<variant, wire, stream, buffer, emitted>>
    /\ UNCHANGED <<decodeVars, icpVars, otherVars>>

\* One iteration of `while STX in buffer and ETX in buffer`, or its exit.
ExtractStep ==
    /\ pc = "extract"
    /\ variant \in {"pose", "poll"}
    /\ IF ~LoopCond(buffer)
       THEN /\ pc' = "recv"
            /\ UNCHANGED <<buffer, emitted>>
       ELSE IF ExtractE(buffer) < 0
       THEN \* index() raises ValueError, which nothing catches; poll() breaks
            /\ pc' = IF variant = "poll" THEN "recv" ELSE "crashed"
            /\ UNCHANGED <<buffer, emitted>>
       ELSE /\ emitted' = Append(emitted, ExtractPacket(buffer))
            /\ buffer' = ExtractRest(buffer)
            /\ pc' = "extract"
    /\ UNCHANGED <<variant, wire, stream>>
    /\ UNCHANGED <<decodeVars, icpVars, otherVars>>

(***************************************************************************)
(* read_frame of realtime_lidar.py: `data` is local to one call.           *)
(***************************************************************************)
\* chunk = sock.recv(4096); data += chunk; if ETX in chunk: break
ReadFrameRecv(k) ==
    /\ pc = "recv"
    /\ variant = "readframe"
    /\ k \in 1..MaxChunk
    /\ k <= Len(wire)
    /\ buffer' = buffer \o SubSeq(wire, 1, k)
    /\ wire' = SubSeq(wire, k + 1, Len(wire))
    /\ pc' = IF Contains(SubSeq(wire, 1, k), ETX) THEN "return" ELSE "recv"
    /\ UNCHANGED <<variant, stream, emitted>>
    /\ UNCHANGED <<decodeVars, icpVars, otherVars>>

\* except socket.timeout: pass  -> return data
ReadFrameTimeout ==
    /\ pc = "recv"
    /\ variant = "readframe"
    /\ ~closed
    /\ pc' = "return"
    /\ UNCHANGED <<variant, wire, stream, buffer, emitted>>
    /\ UNCHANGED <<decodeVars, icpVars, otherVars>>

\* raw = read_frame(sock); if not raw: continue; parsed = parse_ascii_frame(raw)
ReadFrameReturn ==
    /\ pc = "return"
    /\ variant = "readframe"
    /\ emitted' = IF buffer = <<>> THEN emitted ELSE Append(emitted, buffer)
    /\ buffer' = <<>>
    /\ pc' = "recv"
    /\ UNCHANGED <<variant, wire, stream>>
    /\ UNCHANGED <<decodeVars, icpVars, otherVars>>

(***************************************************************************)
(* Specifications of the framers.                                          *)
(***************************************************************************)
InitFramer ==
    \E v \in {"pose", "poll"} : FramerInit(v, SeqsUpTo(Byte, MaxStream))

NextFramer ==
    \/ \E k \in 1..MaxChunk : Recv(k)
    \/ RecvTimeout
    \/ ExtractStep

SpecFramer == InitFramer /\ [][NextFramer]_vars

InitReadFrame ==
    FramerInit("readframe", {s \in SeqsUpTo(Byte, MaxStream) : WellFormed(s)})

NextReadFrame ==
    \/ \E k \in 1..MaxChunk : ReadFrameRecv(k)
    \/ ReadFrameTimeout
    \/ ReadFrameReturn

SpecReadFrame == InitReadFrame /\ [][NextReadFrame]_vars

(***************************************************************************)
(* The acquisition loops when the device closes the connection: once every *)
(* byte it sent has been received, recv returns no bytes.                  *)
(***************************************************************************)
\* The device closes the connection.
PeerClose ==
    /\ pc \in {"recv", "extract", "return"}
    /\ ~closed
    /\ closed' = TRUE
    /\ UNCHANGED <<framerVars, decodeVars, icpVars, composeVars, mapVars, persistVars, parseVars>>

\* collect_lidar_frames: data = sock.recv(65535).decode() is "" and
\* buffer += data changes nothing; the loop goes on.
RecvClosed ==
    /\ pc = "recv"
    /\ variant = "pose"
    /\ closed /\ wire = <<>>
    /\ pc' = "extract"
    /\ UNCHANGED <<variant, wire, stream, buffer, emitted>>
    /\ UNCHANGED <<decodeVars, icpVars, otherVars>>

\* read_frame: `if not chunk: break`, then `return data`
ReadFrameClosed ==
    /\ pc = "recv"
    /\ variant = "readframe"
    /\ closed /\ wire = <<>>
    /\ pc' = "return"
    /\ UNCHANGED <<variant, wire, stream, buffer, emitted>>
    /\ UNCHANGED <<decodeVars, icpVars, otherVars>>

\* Ctrl+C: the KeyboardInterrupt handler of collect_lidar_frames, and the
\* except / finally clauses of realtime_lidar.main, leave the loop and
\* close the socket.
Interrupt ==
    /\ pc \in {"recv", "extract", "return"}
    /\ pc' = "shutdown"
    /\ UNCHANGED <<variant, wire, stream, buffer, emitted>>
    /\ UNCHANGED <<decodeVars, icpVars, otherVars>>

\* What the device sends before it closes: whole telegrams, then possibly
\* the beginning of one more.
PartialTail(s) ==
    IF ~Contains(s, ETX) THEN s
    ELSE LET e == CHOOSE i \in 1..Len(s) :
                      s[i] = ETX /\ \A j \in (i + 1)..Len(s) : s[j] # ETX
         IN  Slice(s, e + 1, Len(s))

CloseStreams ==
    {s \in SeqsUpTo(Byte, MaxStream) :
        LET tail == PartialTail(s)
        IN  /\ WellFormed(SubSeq(s, 1, Len(s) - Len(tail)))
            /\ tail # <<>> => tail[1] = STX /\ \A i \in 2..Len(tail) : tail[i] \in Payload}

InitClose ==
    \E v \in {"pose", "readframe"} : FramerInit(v, CloseStreams)

NextClose ==
    \/ \E k \in 1..MaxChunk : Recv(k)
    \/ RecvTimeout
    \/ RecvClosed
    \/ ExtractStep
    \/ \E k \in 1..MaxChunk : ReadFrameRecv(k)
    \/ ReadFrameTimeout
    \/ ReadFrameClosed
    \/ ReadFrameReturn
    \/ PeerClose
    \/ Interrupt

\* The loops keep running (no step of the program is postponed forever);
\* nothing forces a timeout, a closure or a Ctrl+C.
SpecClose ==
    /\ InitClose
    /\ [][NextClose]_vars
    /\ WF_vars(\E k \in 1..MaxChunk : Recv(k))
    /\ WF_vars(RecvClosed)
    /\ WF_vars(ExtractStep)
    /\ WF_vars(\E k \in 1..MaxChunk : ReadFrameRecv(k))
    /\ WF_vars(ReadFrameClosed)
    /\ WF_vars(ReadFrameReturn)

(***************************************************************************)
(* Specification of the decoders: one telegram through both pipelines.     *)
(***************************************************************************)
FramerIdle ==
    /\ variant = "none"
    /\ wire = <<>>
    /\ stream = <<>>
    /\ buffer = <<>>
    /\ emitted = <<>>
    /\ pc = "idle"

InitDecode ==
    /\ FramerIdle
    /\ parts \in DecodeInputs
    /\ values = <<>>
    /\ polar = NoScan
    /\ cart = <<>>
    /\ scanA = <<>>
    /\ distances = NoDistances
    /\ points = <<>>
    /\ scanB = <<>>
    /\ dpc = "parse"
    /\ IcpIdle
    /\ OtherIdle

NextDecode ==
    \/ DoParseAndResample
    \/ DoPolarToCartesian
    \/ DoLoadScan
    \/ DoParseAsciiFrame
    \/ DoPolarToPointObjects
    \/ DoScanToXY

SpecDecode == InitDecode /\ [][NextDecode]_vars

(***************************************************************************)
(* Lidar_pose.py: nearest_neighbors, best_fit_transform, icp_2d,           *)
(* compute_poses_from_scans.  Points are pairs of rationals, transforms    *)
(* are 3x3 homogeneous matrices of rationals.                              *)
(***************************************************************************)
DOWNSAMPLE_STEP == 2     \* downsample_step: int = 2
REJECT_QUANTILE == 95    \* reject_outlier_quantile: float = 0.95, in hundredths
TOLERANCE_INV == 100000  \* tolerance: float = 1e-5, as 1 / TOLERANCE_INV

Pt(x, y) == <<RInt(x), RInt(y)>>
PAdd(p, q) == <<RAdd(p[1], q[1]), RAdd(p[2], q[2])>>
PSub(p, q) == <<RSub(p[1], q[1]), RSub(p[2], q[2])>>

RECURSIVE RSum(_)
RSum(s) == IF s = <<>> THEN Zero ELSE RAdd(Head(s), RSum(Tail(s)))

One == RInt(1)
RNeg(a) == <<-a[1], a[2]>>
RAbs(a) == <<Abs(a[1]), a[2]>>

\* Square roots of rationals, where they are rational.
RECURSIVE ISqrtIn(_, _, _)
ISqrtIn(n, lo, hi) ==
    IF lo >= hi THEN lo
    ELSE LET mid == (lo + hi + 1) \div 2
         IN  IF mid * mid <= n THEN ISqrtIn(n, mid, hi)
             ELSE ISqrtIn(n, lo, mid - 1)
ISqrt(n) == ISqrtIn(n, 0, IF n < 46340 THEN n ELSE 46340)
IsSquare(n) == n >= 0 /\ ISqrt(n) * ISqrt(n) = n
RSqrtOk(q) == IsSquare(q[1]) /\ IsSquare(q[2])
RSqrt(q) == <<ISqrt(q[1]), ISqrt(q[2])>>

\* 2x2 and 3x3 matrices: sequences of rows.
Det2(M) == RSub(RMul(M[1][1], M[2][2]), RMul(M[1][2], M[2][1]))
Mat2Mul(A, B) ==
    [i \in 1..2 |-> [j \in 1..2 |->
        RAdd(RMul(A[i][1], B[1][j]), RMul(A[i][2], B[2][j]))]]
Transpose2(M) == [i \in 1..2 |-> [j \in 1..2 |-> M[j][i]]]
Eye2 == <<<<One, Zero>>, <<Zero, One>>>>
Mat2Vec(M, v) ==
    <<RAdd(RMul(M[1][1], v[1]), RMul(M[1][2], v[2])),
      RAdd(RMul(M[2][1], v[1]), RMul(M[2][2], v[2]))>>

\* np.eye(3)
Eye3 == <<<<One, Zero, Zero>>, <<Zero, One, Zero>>, <<Zero, Zero, One>>>>

\* A @ B for 3x3 matrices
Mat3Mul(A, B) ==
    [i \in 1..3 |-> [j \in 1..3 |->
        RAdd(RAdd(RMul(A[i][1], B[1][j]), RMul(A[i][2], B[2][j])),
             RMul(A[i][3], B[3][j]))]]

\* R_h = np.eye(3); R_h[:2, :2] = R; R_h[:2, 2] = t
Homogeneous(R, t) ==
    <<<<R[1][1], R[1][2], t[1]>>, <<R[2][1], R[2][2], t[2]>>,
      <<Zero, Zero, One>>>>

\* (T @ [x, y, 1])[:2]
Apply3(M, p) ==
    <<RAdd(RAdd(RMul(M[1][1], p[1]), RMul(M[1][2], p[2])), M[1][3]),
      RAdd(RAdd(RMul(M[2][1], p[1]), RMul(M[2][2], p[2])), M[2][3])>>

RotBlock(M) == <<<<M[1][1], M[1][2]>>, <<M[2][1], M[2][2]>>>>
Translation(M) == <<M[1][3], M[2][3]>>

\* prev_error = float("inf")
Inf == <<1, 0>>

\* np.sum(diff ** 2): the squared distance of two points
Dist2(p, q) ==
    RAdd(RMul(RSub(p[1], q[1]), RSub(p[1], q[1])),
         RMul(RSub(p[2], q[2]), RSub(p[2], q[2])))

\* nearest_neighbors(src, dst): for each point of src the index of a
\* nearest point of dst.  Among equally near points the k-d tree's pick is
\* implementation-defined: every choice is an outcome.
RECURSIVE Picks(_, _)
Picks(sets, n) ==
    IF n > Len(sets) THEN {<<>>}
    ELSE {<<j>> \o rest : j \in sets[n], rest \in Picks(sets, n + 1)}
NearestChoices(s, d) ==
    Picks([n \in 1..Len(s) |->
              {j \in 1..Len(d) : \A j2 \in 1..Len(d) :
                  RLe(Dist2(s[n], d[j]), Dist2(s[n], d[j2]))}], 1)

\* np.quantile(distances, q) with q = num/100, linear interpolation
Quantile(dists, num) ==
    LET sorted == SortSeq(dists, RLt)
        h == (Len(dists) - 1) * num
        lo == h \div 100
        frac == Rat(h % 100, 100)
    IN  IF lo + 2 > Len(sorted) THEN sorted[lo + 1]
        ELSE RAdd(sorted[lo + 1],
                  RMul(frac, RSub(sorted[lo + 2], sorted[lo + 1])))

\* np.mean(A, axis=0)
Centroid(P) ==
    <<RDiv(RSum([i \in 1..Len(P) |-> P[i][1]]), RInt(Len(P))),
      RDiv(RSum([i \in 1..Len(P) |-> P[i][2]]), RInt(Len(P)))>>

\* H = AA.T @ BB, with AA = A - centroid_A and BB = B - centroid_B
CrossCov(A, B) ==
    LET cA == Centroid(A)
        cB == Centroid(B)
    IN  [a \in 1..2 |-> [b \in 1..2 |->
            RSum([i \in 1..Len(A) |->
                     RMul(RSub(A[i][a], cA[a]), RSub(B[i][b], cB[b]))])]]

\* An orthogonal matrix m / sqrt(n2), kept unnormalised so that its
\* determinant sign is known even when sqrt(n2) is irrational.
Scaled(m, n2) == [m |-> m, n2 |-> n2]
\* The direction of (a, b) as a pair of coprime integers.
Direction(a, b) ==
    LET l == (a[2] * b[2]) \div GCD(a[2], b[2])
        ia == a[1] * (l \div a[2])
        ib == b[1] * (l \div b[2])
        g == GCD(Abs(ia), Abs(ib))
    IN  IF g = 0 THEN <<0, 0>> ELSE <<ia \div g, ib \div g>>
ScaledRot(a, b) ==
    LET v == Direction(a, b)
    IN  Scaled(<<<<RInt(v[1]), RInt(-v[2])>>, <<RInt(v[2]), RInt(v[1])>>>>,
               RInt(v[1] * v[1] + v[2] * v[2]))
ScaledRefl(c, d) ==
    LET v == Direction(c, d)
    IN  Scaled(<<<<RInt(v[1]), RInt(v[2])>>, <<RInt(v[2]), RInt(-v[1])>>>>,
               RInt(v[1] * v[1] + v[2] * v[2]))
Exact(o) == o.n2 # Zero /\ RSqrtOk(o.n2)
Realize(o) ==
    [i \in 1..2 |-> [j \in 1..2 |-> RDiv(o.m[i][j], RSqrt(o.n2))]]

Signs == {One, RNeg(One)}
LatticeRotations == {ScaledRot(One, Zero), ScaledRot(Zero, One),
                     ScaledRot(RNeg(One), Zero), ScaledRot(Zero, RNeg(One))}

\* U, S, Vt = np.linalg.svd(H); R = Vt.T @ U.T, and the matrix the
\* correction `Vt[1, :] *= -1; R = Vt.T @ U.T` would give.  Vt.T @ U.T is
\* the orthogonal matrix maximising trace(R H): for a 2x2 H with
\*   a = H00 + H11, b = H01 - H10, c = H00 - H11, d = H01 + H10
\* it is the rotation along (a, b) when det H > 0 and the reflection along
\* (c, d) when det H < 0, and flipping the last row of Vt swaps the two.
\* Where the factorization is not unique (det H = 0, or equal singular
\* values) every factorization LAPACK may return is an outcome.
SvdOutcomes(H) ==
    LET a == RAdd(H[1][1], H[2][2])
        b == RSub(H[1][2], H[2][1])
        c == RSub(H[1][1], H[2][2])
        d == RAdd(H[1][2], H[2][1])
        det == Det2(H)
        zeroH == \A i, j \in 1..2 : H[i][j] = Zero
    IN  IF zeroH
        THEN {[raw |-> Scaled(<<<<s1, Zero>>, <<Zero, s2>>>>, One),
               flipped |-> Scaled(<<<<s1, Zero>>, <<Zero, RNeg(s2)>>>>, One)] :
                  s1 \in Signs, s2 \in Signs}
        ELSE IF RLt(Zero, det)
        THEN {[raw |-> ScaledRot(a, b), flipped |-> ScaledRefl(c, d)]}
        ELSE IF RLt(det, Zero)
        THEN IF a = Zero /\ b = Zero
             THEN {[raw |-> ScaledRefl(c, d), flipped |-> r] :
                      r \in LatticeRotations}
             ELSE {[raw |-> ScaledRefl(c, d), flipped |-> ScaledRot(a, b)]}
        ELSE {[raw |-> ScaledRot(a, b), flipped |-> ScaledRefl(c, d)],
              [raw |-> ScaledRefl(c, d), flipped |-> ScaledRot(a, b)]}

\* Mutant of FitRotation: the reflection correction left out.
FitRotation_NoFix(o) == o.raw

\* if np.linalg.det(R) < 0: Vt[1, :] *= -1; R = Vt.T @ U.T
FitRotation(o) == IF RLt(Det2(o.raw.m), Zero) THEN o.flipped ELSE o.raw

\* t = centroid_B - R @ centroid_A
FitTranslation(R, A, B) == PSub(Centroid(B), Mat2Vec(R, Centroid(A)))

\* prev_pts[::downsample_step]
Downsample(P, step) ==
    [i \in 1..((Len(P) + step - 1) \div step) |-> P[(i - 1) * step + 1]]

Gather(P, idx) == [i \in 1..Len(idx) |-> P[idx[i]]]

\* The indices kept by `mask = distances <= thresh`, in order.
RECURSIVE MaskIdx(_, _, _)
MaskIdx(dists, thresh, i) ==
    IF i > Len(dists) THEN <<>>
    ELSE (IF RLe(dists[i], thresh) THEN <<i>> ELSE <<>>)
             \o MaskIdx(dists, thresh, i + 1)

\* Outlier rejection of icp_2d: the indices of the pairs handed to
\* best_fit_transform (all of them when fewer than 3 survive the mask).
KeptIdx(dists) ==
    LET kept == MaskIdx(dists, Quantile(dists, REJECT_QUANTILE), 1)
    IN  IF Len(kept) >= 3 THEN kept ELSE [i \in 1..Len(dists) |-> i]

\* mse = float(np.mean(distances)): after a successful mask `distances` is
\* the masked array, otherwise the full one.
MeanOf(dists, kept) ==
    RDiv(RSum([i \in 1..Len(kept) |-> dists[kept[i]]]), RInt(Len(kept)))

\* x < 1 / n for a rational x >= 0, without forming x[1] * n
BelowInverse(x, n) == x[1] <= (x[2] - 1) \div n

\* abs(prev_error - mse) < tolerance
Converged(prev, mse) ==
    prev # Inf /\ BelowInverse(RAbs(RSub(prev, mse)), TOLERANCE_INV)

\* best_fit_transform(A, B), given the outcome o of the factorization
best_fit_transform(A, B, o) ==
    LET R == Realize(FitRotation(o))
    IN  [R |-> R, t |-> FitTranslation(R, A, B)]

\* Entry of the loop body of compute_poses_from_scans and of icp_2d:
\*   prev_pts = scans[k - 1][::step]; curr_pts = scans[k][::step]
\*   icp_2d(src=prev_pts, dst=curr_pts, ...): T = np.eye(3),
\*   src_transformed = src.copy(), prev_error = inf
PoseLoop ==
    /\ program = "Lidar_pose"
    /\ ipc = "pose_loop"
    /\ scan_k < Len(scans)
    /\ src' = Downsample(scans[scan_k], DOWNSAMPLE_STEP)
    /\ dst' = Downsample(scans[scan_k + 1], DOWNSAMPLE_STEP)
    /\ T' = Eye3
    /\ src_transformed' = src'
    /\ prev_error' = Inf
    /\ iter' = 0
    /\ ipc' = "icp"
    /\ UNCHANGED <<scans, max_iterations, scan_k, poses, fit, result>>
    /\ UNCHANGED <<program, frames, all_world_points>>
    /\ UNCHANGED <<framerVars, decodeVars, otherVars>>

\* One pass of `for i in range(max_iterations)` in icp_2d.  A best fit
\* whose rotation is irrational cannot be carried on exactly: the run
\* stops at ipc = "inexact".
IcpIterate ==
    /\ program = "Lidar_pose"
    /\ ipc = "icp"
    /\ iter < max_iterations
    /\ \E idx \in NearestChoices(src_transformed, dst) :
        \E dists \in {[n \in 1..Len(src_transformed) |->
                          Dist2(src_transformed[n], dst[idx[n]])]} :
        \E kept \in {KeptIdx(dists)} :
        \E matched_src \in {Gather(src_transformed, kept)} :
        \E matched_dst \in {Gather(dst, [n \in 1..Len(kept) |-> idx[kept[n]]])} :
        LET mse == MeanOf(dists, kept)
        IN  \E o \in SvdOutcomes(CrossCov(matched_src, matched_dst)) :
            IF ~Exact(FitRotation(o))
            THEN /\ fit' = [svd |-> o, exact |-> FALSE]
                 /\ ipc' = "inexact"
                 /\ UNCHANGED <<T, src_transformed, prev_error, iter, result>>
            ELSE LET bf == best_fit_transform(matched_src, matched_dst, o)
                     R_h == Homogeneous(bf.R, bf.t)
                 IN  /\ fit' = [svd |-> o, exact |-> TRUE,
                                R |-> bf.R, t |-> bf.t]
                     /\ T' = Mat3Mul(R_h, T)
                     /\ src_transformed' =
                            [n \in 1..Len(src) |-> Apply3(R_h, src[n])]
                     /\ IF Converged(prev_error, mse)
                        THEN /\ result' = [T |-> T', error |-> mse,
                                           iterations |-> iter + 1]
                             /\ ipc' = "returned"
                             /\ UNCHANGED <<prev_error, iter>>
                        ELSE /\ prev_error' = mse
                             /\ iter' = iter + 1
                             /\ UNCHANGED <<result, ipc>>
    /\ UNCHANGED <<scans, max_iterations, scan_k, poses, src, dst>>
    /\ UNCHANGED <<program, frames, all_world_points>>
    /\ UNCHANGED <<framerVars, decodeVars, otherVars>>

\* The loop of icp_2d ran out: return T, prev_error, max_iterations
IcpReturnCap ==
    /\ program = "Lidar_pose"
    /\ ipc = "icp"
    /\ iter = max_iterations
    /\ result' = [T |-> T, error |-> prev_error, iterations |-> max_iterations]
    /\ ipc' = "returned"
    /\ UNCHANGED <<scans, max_iterations, scan_k, poses, src, dst, T,
                   src_transformed, prev_error, iter, fit>>
    /\ UNCHANGED <<program, frames, all_world_points>>
    /\ UNCHANGED <<framerVars, decodeVars, otherVars>>

\* Mutant of PoseAppend: the new pose overwrites the last one.
PoseAppend_Overwrite ==
    /\ program = "Lidar_pose"
    /\ ipc = "returned"
    /\ poses' = [poses EXCEPT ![Len(poses)] = Mat3Mul(poses[Len(poses)], result.T)]
    /\ scan_k' = scan_k + 1
    /\ ipc' = "pose_loop"
    /\ UNCHANGED <<scans, max_iterations, src, dst, T, src_transformed,
                   prev_error, iter, fit, result>>
    /\ UNCHANGED <<program, frames, all_world_points>>
    /\ UNCHANGED <<framerVars, decodeVars, otherVars>>

\* T_world_curr = poses[-1] @ T_rel; poses.append(T_world_curr)
PoseAppend ==
    /\ program = "Lidar_pose"
    /\ ipc = "returned"
    /\ poses' = Append(poses, Mat3Mul(poses[Len(poses)], result.T))
    /\ scan_k' = scan_k + 1
    /\ ipc' = "pose_loop"
    /\ UNCHANGED <<scans, max_iterations, src, dst, T, src_transformed,
                   prev_error, iter, fit, result>>
    /\ UNCHANGED <<program, frames, all_world_points>>
    /\ UNCHANGED <<framerVars, decodeVars, otherVars>>

\* return poses
PoseReturn ==
    /\ program = "Lidar_pose"
    /\ ipc = "pose_loop"
    /\ scan_k >= Len(scans)
    /\ ipc' = "done"
    /\ UNCHANGED <<scans, max_iterations, scan_k, poses, src, dst, T,
                   src_transformed, prev_error, iter, fit, result>>
    /\ UNCHANGED <<program, frames, all_world_points>>
    /\ UNCHANGED <<framerVars, decodeVars, otherVars>>

(***************************************************************************)
(* slam_map.py: main and icp_point_to_point.  The accumulated (T_R, T_t)   *)
(* and the poses (poses_R[i], poses_t[i]) are kept as homogeneous          *)
(* matrices; the working copy `src` of icp_point_to_point is               *)
(* src_transformed, and its arguments src_pts, dst_pts are src, dst.       *)
(***************************************************************************)
FRAME_SUBSAMPLE == 1        \* FRAME_SUBSAMPLE
POINT_SUBSAMPLE == 4        \* POINT_SUBSAMPLE
MAX_MATCH_DIST == 1000      \* MAX_MATCH_DIST
ICP_TOL_INV == 10000        \* ICP_TOL = 1e-4, as 1 / ICP_TOL_INV
MIN_MATCHES == 6            \* `if mask.sum() < 6`
MIN_POINTS_PER_SCAN == 8    \* MIN_POINTS_PER_SCAN, scaled down from 50

\* The frames main keeps: every FRAME_SUBSAMPLE-th one, if it has at least
\* MIN_POINTS_PER_SCAN points, downsampled.
RECURSIVE Preprocess(_, _)
Preprocess(fs, n) ==
    IF n > Len(fs) THEN <<>>
    ELSE (IF (n - 1) % FRAME_SUBSAMPLE # 0 THEN <<>>
          ELSE IF Len(fs[n]) < MIN_POINTS_PER_SCAN THEN <<>>
          ELSE <<Downsample(fs[n], POINT_SUBSAMPLE)>>)
         \o Preprocess(fs, n + 1)

\* transform_points(pts, R, t), with (R, t) as a homogeneous matrix
transform_points(pts, M) == [n \in 1..Len(pts) |-> Apply3(M, pts[n])]

\* compose_transform(R2, t2, R1, t1) = (R2 @ R1, R2 @ t1 + t2)
compose_transform(M2, M1) == Mat3Mul(M2, M1)

\* mask = dists < max_correspondence_dist, on the squared distances
RECURSIVE MatchIdx(_, _)
MatchIdx(dists, n) ==
    IF n > Len(dists) THEN <<>>
    ELSE (IF RLt(dists[n], RInt(MAX_MATCH_DIST * MAX_MATCH_DIST))
          THEN <<n>> ELSE <<>>) \o MatchIdx(dists, n + 1)

\* np.mean(dists[mask]) of the Euclidean distances, where it is rational
MeanDistOk(dists, kept) == \A n \in 1..Len(kept) : RSqrtOk(dists[kept[n]])
MeanDist(dists, kept) ==
    RDiv(RSum([n \in 1..Len(kept) |-> RSqrt(dists[kept[n]])]),
         RInt(Len(kept)))

\* prev_error is not None and abs(prev_error - mean_error) < tol
SlamConverged(prev, err) ==
    prev # None /\ BelowInverse(RAbs(RSub(prev, err)), ICP_TOL_INV)

\* prev_error if prev_error is not None else np.inf
ErrorOrInf(prev) == IF prev = None THEN Inf ELSE prev

\* main, up to the pose loop: preprocess the frames, give up on fewer than
\* two scans, start at the origin and place the first scan.
SlamPreprocess ==
    /\ program = "slam_map"
    /\ ipc = "preprocess"
    /\ scans' = Preprocess(frames, 1)
    /\ IF Len(scans') < 2
       THEN /\ ipc' = "done"
            /\ UNCHANGED <<poses, all_world_points, scan_k>>
       ELSE /\ poses' = <<Eye3>>
            /\ all_world_points' = <<transform_points(scans'[1], Eye3)>>
            /\ scan_k' = 1
            /\ ipc' = "pose_loop"
    /\ UNCHANGED <<program, frames, max_iterations, src, dst, T,
                   src_transformed, prev_error, iter, fit, result>>
    /\ UNCHANGED <<framerVars, decodeVars, otherVars>>

\* src = scans[i]; dst = scans[i-1]; icp_point_to_point(src, dst, ...):
\* src = src_pts.copy(), T_R = eye, T_t = zeros, prev_error = None
SlamLoop ==
    /\ program = "slam_map"
    /\ ipc = "pose_loop"
    /\ scan_k < Len(scans)
    /\ src' = scans[scan_k + 1]
    /\ dst' = scans[scan_k]
    /\ T' = Eye3
    /\ src_transformed' = src'
    /\ prev_error' = None
    /\ iter' = 0
    /\ ipc' = "icp"
    /\ UNCHANGED <<program, frames, all_world_points, scans, max_iterations,
                   scan_k, poses, fit, result>>
    /\ UNCHANGED <<framerVars, decodeVars, otherVars>>

\* One pass of `for it in range(max_iters)` in icp_point_to_point, with the
\* early return on too few matches and the break on convergence.  What is
\* returned is (T_R, T_t, error): there is no count of iterations.  A best
\* fit or a mean error that is irrational stops the run at "inexact".
SlamIterate ==
    /\ program = "slam_map"
    /\ ipc = "icp"
    /\ iter < max_iterations
    /\ \E idx \in NearestChoices(src_transformed, dst) :
        \E dists \in {[n \in 1..Len(src_transformed) |->
                          Dist2(src_transformed[n], dst[idx[n]])]} :
        \E kept \in {MatchIdx(dists, 1)} :
        IF Len(kept) < MIN_MATCHES
        THEN /\ result' = [T |-> Eye3, error |-> Inf]
             /\ ipc' = "returned"
             /\ UNCHANGED <<T, src_transformed, prev_error, iter, fit>>
        ELSE
        \E src_matched \in {Gather(src_transformed, kept)} :
        \E dst_matched \in {Gather(dst, [n \in 1..Len(kept) |-> idx[kept[n]]])} :
        \E o \in SvdOutcomes(CrossCov(src_matched, dst_matched)) :
            IF ~Exact(FitRotation(o)) \/ ~MeanDistOk(dists, kept)
            THEN /\ fit' = [svd |-> o, exact |-> FALSE]
                 /\ ipc' = "inexact"
                 /\ UNCHANGED <<T, src_transformed, prev_error, iter, result>>
            ELSE LET bf == best_fit_transform(src_matched, dst_matched, o)
                     R_h == Homogeneous(bf.R, bf.t)
                     mean_error == MeanDist(dists, kept)
                 IN  /\ fit' = [svd |-> o, exact |-> TRUE,
                                R |-> bf.R, t |-> bf.t]
                     /\ src_transformed' = transform_points(src_transformed, R_h)
                     /\ T' = Mat3Mul(R_h, T)
                     /\ IF SlamConverged(prev_error, mean_error)
                        THEN /\ result' = [T |-> T',
                                           error |-> ErrorOrInf(prev_error)]
                             /\ ipc' = "returned"
                             /\ UNCHANGED <<prev_error, iter>>
                        ELSE /\ prev_error' = mean_error
                             /\ iter' = iter + 1
                             /\ UNCHANGED <<result, ipc>>
    /\ UNCHANGED <<program, frames, all_world_points, scans, max_iterations,
                   scan_k, poses, src, dst>>
    /\ UNCHANGED <<framerVars, decodeVars, otherVars>>

\* The loop of icp_point_to_point ran out: return T_R, T_t, prev_error
SlamReturnCap ==
    /\ program = "slam_map"
    /\ ipc = "icp"
    /\ iter = max_iterations
    /\ result' = [T |-> T, error |-> ErrorOrInf(prev_error)]
    /\ ipc' = "returned"
    /\ UNCHANGED <<program, frames, all_world_points, scans, max_iterations,
                   scan_k, poses, src, dst, T, src_transformed, prev_error,
                   iter, fit>>
    /\ UNCHANGED <<framerVars, decodeVars, otherVars>>

\* Mutant of SlamAppend: the relative transform is appended uncomposed.
SlamAppend_NoCompose ==
    /\ program = "slam_map"
    /\ ipc = "returned"
    /\ poses' = Append(poses, result.T)
    /\ all_world_points' =
           Append(all_world_points, transform_points(src, poses'[Len(poses')]))
    /\ scan_k' = scan_k + 1
    /\ ipc' = "pose_loop"
    /\ UNCHANGED <<program, frames, scans, max_iterations, src, dst, T,
                   src_transformed, prev_error, iter, fit, result>>
    /\ UNCHANGED <<framerVars, decodeVars, otherVars>>

\* R_new, t_new = compose_transform(R_prev, t_prev, R_rel, t_rel); append;
\* all_world_points.append(transform_points(src, R_new, t_new))
SlamAppend ==
    /\ program = "slam_map"
    /\ ipc = "returned"
    /\ poses' = Append(poses, compose_transform(poses[Len(poses)], result.T))
    /\ all_world_points' =
           Append(all_world_points, transform_points(src, poses'[Len(poses')]))
    /\ scan_k' = scan_k + 1
    /\ ipc' = "pose_loop"
    /\ UNCHANGED <<program, frames, scans, max_iterations, src, dst, T,
                   src_transformed, prev_error, iter, fit, result>>
    /\ UNCHANGED <<framerVars, decodeVars, otherVars>>

\* The pose loop of main is over.
SlamDone ==
    /\ program = "slam_map"
    /\ ipc = "pose_loop"
    /\ scan_k >= Len(scans)
    /\ ipc' = "done"
    /\ UNCHANGED <<program, frames, all_world_points, scans, max_iterations,
                   scan_k, poses, src, dst, T, src_transformed, prev_error,
                   iter, fit, result>>
    /\ UNCHANGED <<framerVars, decodeVars, otherVars>>

\* floor and ceiling of a rational
Floor(a) == a[1] \div a[2]

Ceil(a) == -((-a[1]) \div a[2])

RMin(S) == CHOOSE a \in S : \A b \in S : RLe(a, b)

RMax(S) == CHOOSE a \in S : \A b \in S : RLe(b, a)

\* MAP_RESOLUTION and MAP_PADDING, scaled down with the scans
MAP_RESOLUTION == 5

MAP_PADDING == 7

\* np.vstack(all_world_points)
RECURSIVE Vstack(_)
Vstack(lists) ==
    IF lists = <<>> THEN <<>> ELSE Head(lists) \o Vstack(Tail(lists))

\* The bin of np.histogram2d a coordinate falls into, for `bins` equal bins
\* over [lo, hi]: 0-based, the last bin closed on the right.
BinOf(x, lo, hi, bins) ==
    IF x = hi THEN bins - 1
    ELSE Floor(RDiv(RMul(RSub(x, lo), RInt(bins)), RSub(hi, lo)))

\* The bins of np.histogram2d the points fall into.
BinsOf(pts, xmin, xmax, ymin, ymax, x_bins, y_bins) ==
    [n \in 1..Len(pts) |-> <<BinOf(pts[n][1], xmin, xmax, x_bins),
                             BinOf(pts[n][2], ymin, ymax, y_bins)>>]

\* How many of the points whose bins are `cells` fall into bin (i, j).
CountIn(cells, i, j) ==
    Cardinality({n \in DOMAIN cells : cells[n] = <<i, j>>})

\* Mutant of Counts: a cell records the parity of its hits.
Counts_Parity(cells, x_bins, y_bins) ==
    [i \in 1..x_bins |-> [j \in 1..y_bins |-> CountIn(cells, i - 1, j - 1) % 2]]

\* The array of counts of np.histogram2d.
Counts(cells, x_bins, y_bins) ==
    [i \in 1..x_bins |-> [j \in 1..y_bins |-> CountIn(cells, i - 1, j - 1)]]

\* np.histogram2d(xs, ys, bins=[x_bins, y_bins], range=[[xmin, xmax],
\* [ymin, ymax]]): an x_bins by y_bins array of counts.
Histogram2d(pts, xmin, xmax, ymin, ymax, x_bins, y_bins) ==
    Counts(BinsOf(pts, xmin, xmax, ymin, ymax, x_bins, y_bins), x_bins, y_bins)

\* np.rot90(m): a quarter turn counterclockwise, out[i][j] = m[j][cols-1-i]
Rot90(m, rows, cols) ==
    [i \in 1..cols |-> [j \in 1..rows |-> m[j][cols + 1 - i]]]

\* build_map(all_points_world, resolution, padding)
build_map(all_points_world, resolution, padding) ==
    LET xs == {all_points_world[n][1] : n \in 1..Len(all_points_world)}
        ys == {all_points_world[n][2] : n \in 1..Len(all_points_world)}
        xmin == RSub(RMin(xs), RInt(padding))
        xmax == RAdd(RMax(xs), RInt(padding))
        ymin == RSub(RMin(ys), RInt(padding))
        ymax == RAdd(RMax(ys), RInt(padding))
        x_bins == Ceil(RDiv(RSub(xmax, xmin), RInt(resolution)))
        y_bins == Ceil(RDiv(RSub(ymax, ymin), RInt(resolution)))
    IN  [H |-> Rot90(Histogram2d(all_points_world, xmin, xmax, ymin, ymax,
                                 x_bins, y_bins), x_bins, y_bins),
         extent |-> <<xmin, xmax, ymin, ymax>>]

\* main, after the pose loop: all_pts = np.vstack(all_world_points) and
\* H, extent = build_map(all_pts, MAP_RESOLUTION, MAP_PADDING)
SlamBuildMap ==
    /\ program = "slam_map"
    /\ ipc = "done"
    /\ poses # <<>>
    /\ \E m \in {build_map(Vstack(all_world_points), MAP_RESOLUTION, MAP_PADDING)} :
           /\ grid_H' = m.H
           /\ grid_extent' = m.extent
    /\ ipc' = "mapped"
    /\ UNCHANGED <<program, frames, all_world_points, scans, max_iterations,
                   scan_k, poses, src, dst, T, src_transformed, prev_error,
                   iter, fit, result>>
    /\ UNCHANGED <<framerVars, decodeVars, composeVars, sockVars, persistVars, parseVars>>

(***************************************************************************)
(* Specification of the pose computations: a file of two or three scans of *)
(* the same static points, each scan the previous one moved rigidly (or    *)
(* mirrored, which makes the cross-covariance of the matches improper).    *)
(***************************************************************************)
MaxIter == 3        \* largest iteration cap handed to the matcher

Shift(x, y) == Homogeneous(Eye2, Pt(x, y))
MirrorY == Homogeneous(<<<<One, Zero>>, <<Zero, RNeg(One)>>>>, Pt(0, 0))
Turn345 == Homogeneous(<<<<Rat(4, 5), Rat(-3, 5)>>, <<Rat(3, 5), Rat(4, 5)>>>>,
                       Pt(0, 0))

\* What takes the coordinates of a static point in one scan to its
\* coordinates in the next.
Motions == {Shift(0, 0), Shift(1, 0), Shift(0, -1), Shift(-1, 1),
            Shift(3, -4), MirrorY, Turn345}

\* Two motions in a row, for the files of three scans.
MotionPairs == {<<Shift(1, 0), Shift(0, -1)>>, <<Shift(1, 0), Shift(1, 0)>>,
                <<Shift(-1, 1), Turn345>>, <<MirrorY, Shift(0, -1)>>,
                <<Shift(1, 0), Shift(2000, 0)>>}

Move(S, M) == [n \in 1..Len(S) |-> Apply3(M, S[n])]

\* A scan whose every step-th point is a point of P, with other points
\* in between.
Spread(P, step) ==
    [n \in 1..(Len(P) * step) |->
        IF (n - 1) % step = 0 THEN P[((n - 1) \div step) + 1]
        ELSE Pt(n, 30 + n)]

FilesOf(shapes) ==
    {<<S, Move(S, M)>> : S \in shapes, M \in Motions}
    \cup {<<S, Move(S, mp[1]), Move(Move(S, mp[1]), mp[2])>> :
              S \in shapes, mp \in MotionPairs}

\* The downsampled points of the scans handed to compute_poses_from_scans.
Shapes ==
    { <<Pt(0, 1), Pt(4, 2), Pt(8, 1)>>,
      <<Pt(0, 0), Pt(6, 0), Pt(7, 5), Pt(0, 3)>>,
      <<Pt(10, 0), Pt(0, 10), Pt(-10, 0)>>,
      <<Pt(0, 0), Pt(4, 0)>> }

ScanFiles == FilesOf({Spread(P, DOWNSAMPLE_STEP) : P \in Shapes})

\* The downsampled points of the frames handed to slam_map.main: enough
\* for a match, and (the last one) too few.
SlamShapes ==
    { <<Pt(10, 0), Pt(5, 9), Pt(-5, 9), Pt(-10, 0), Pt(-5, -9), Pt(5, -9)>>,
      <<Pt(0, 1), Pt(6, 2), Pt(12, 3), Pt(18, 3), Pt(24, 2), Pt(30, 1)>>,
      <<Pt(0, 0), Pt(12, 0), Pt(24, 3), Pt(24, 15), Pt(12, 18), Pt(0, 12)>>,
      <<Pt(0, 0), Pt(12, 0), Pt(24, 3), Pt(24, 15), Pt(12, 18)>> }

\* A frame main skips for having too few points.
ShortFrame == <<Pt(0, 0), Pt(12, 0), Pt(24, 3)>>

FrameFiles ==
    LET full == FilesOf({Spread(P, POINT_SUBSAMPLE) : P \in SlamShapes})
    IN  full \cup {<<f[1], ShortFrame>> \o Tail(f) : f \in full}
             \cup {<<f[1], ShortFrame>> : f \in full}

\* poses = [np.eye(3)]; for k in range(1, len(scans))       (Lidar_pose.py)
\* frames = read_all_frames(JSON_FILE)                      (slam_map.py)
InitICP ==
    /\ FramerIdle
    /\ DecodeIdle
    /\ OtherIdle
    /\ \/ /\ program = "Lidar_pose"
          /\ frames = <<>>
          /\ scans \in ScanFiles
          /\ scan_k = 1
          /\ poses = <<Eye3>>
          /\ ipc = "pose_loop"
       \/ /\ program = "slam_map"
          /\ frames \in FrameFiles
          /\ scans = <<>>
          /\ scan_k = 0
          /\ poses = <<>>
          /\ ipc = "preprocess"
    /\ all_world_points = <<>>
    /\ max_iterations \in 1..MaxIter
    /\ src = <<>>
    /\ dst = <<>>
    /\ T = <<>>
    /\ src_transformed = <<>>
    /\ prev_error = <<>>
    /\ iter = 0
    /\ fit = <<>>
    /\ result = <<>>

NextICP ==
    \/ PoseLoop
    \/ IcpIterate
    \/ IcpReturnCap
    \/ PoseAppend
    \/ PoseReturn
    \/ SlamPreprocess
    \/ SlamLoop
    \/ SlamIterate
    \/ SlamReturnCap
    \/ SlamAppend
    \/ SlamDone
    \/ SlamBuildMap

SpecICP == InitICP /\ [][NextICP]_vars

(***************************************************************************)
(* slam_map.py: transform_points and compose_transform on (R, t) pairs, as *)
(* the code computes them, and the homogeneous product of Lidar_pose.py.   *)
(***************************************************************************)
\* (R @ pts.T).T + t
transform_points_Rt(pts, R, t) ==
    [n \in 1..Len(pts) |-> PAdd(Mat2Vec(R, pts[n]), t)]

\* Mutant of compose_transform_Rt: the two transforms taken in the other
\* order.
compose_transform_Swapped(R2, t2, R1, t1) ==
    [R |-> Mat2Mul(R1, R2), t |-> PAdd(Mat2Vec(R1, t2), t1)]

\* R = R2 @ R1; t = R2 @ t1 + t2
compose_transform_Rt(R2, t2, R1, t1) ==
    [R |-> Mat2Mul(R2, R1), t |-> PAdd(Mat2Vec(R2, t1), t2)]

\* Rotations with rational entries, and translations.
Rotations ==
    { Eye2,
      <<<<Zero, RNeg(One)>>, <<One, Zero>>>>,
      <<<<RNeg(One), Zero>>, <<Zero, RNeg(One)>>>>,
      <<<<Rat(4, 5), Rat(-3, 5)>>, <<Rat(3, 5), Rat(4, 5)>>>>,
      <<<<Rat(5, 13), Rat(12, 13)>>, <<Rat(-12, 13), Rat(5, 13)>>>> }
Translations == {Pt(0, 0), Pt(1, 0), Pt(-2, 3), <<Rat(1, 2), Rat(-7, 3)>>}
PointLists == { <<Pt(0, 0)>>, <<Pt(1, 2), Pt(-3, 5)>>,
                <<<<Rat(1, 3), Rat(5, 2)>>, Pt(7, -4), Pt(0, 1)>> }

InitCompose ==
    /\ FramerIdle
    /\ DecodeIdle
    /\ IcpIdle
    /\ MapIdle
    /\ SockIdle
    /\ PersistIdle
    /\ ParseIdle
    /\ compose_in \in [R1 : Rotations, t1 : Translations,
                       R2 : Rotations, t2 : Translations, pts : PointLists]
    /\ compose_out = <<>>
    /\ cpc = "compose"

\* R_new, t_new = compose_transform(R_prev, t_prev, R_rel, t_rel), and
\* T_world_curr = T_world_prev @ T_rel on the homogeneous matrices
DoCompose ==
    /\ cpc = "compose"
    /\ compose_out' =
           [c |-> compose_transform_Rt(compose_in.R2, compose_in.t2,
                                       compose_in.R1, compose_in.t1),
            h |-> Mat3Mul(Homogeneous(compose_in.R2, compose_in.t2),
                          Homogeneous(compose_in.R1, compose_in.t1))]
    /\ cpc' = "transform"
    /\ UNCHANGED compose_in
    /\ UNCHANGED <<framerVars, decodeVars, icpVars, mapVars, sockVars, persistVars, parseVars>>

\* world_pts = transform_points(src, R_new, t_new), next to the points
\* transformed by (R1, t1) and then by (R2, t2)
DoTransform ==
    /\ cpc = "transform"
    /\ compose_out' =
           [c |-> compose_out.c,
            h |-> compose_out.h,
            direct |-> transform_points_Rt(compose_in.pts,
                                           compose_out.c.R, compose_out.c.t),
            stepwise |-> transform_points_Rt(
                             transform_points_Rt(compose_in.pts,
                                                 compose_in.R1, compose_in.t1),
                             compose_in.R2, compose_in.t2),
            direct_h |-> Move(compose_in.pts, compose_out.h)]
    /\ cpc' = "done"
    /\ UNCHANGED compose_in
    /\ UNCHANGED <<framerVars, decodeVars, icpVars, mapVars, sockVars, persistVars, parseVars>>

NextCompose ==
    \/ DoCompose
    \/ DoTransform

SpecCompose == InitCompose /\ [][NextCompose]_vars

(***************************************************************************)
(* Persisting the scans and stopping: the acquisition loops of             *)
(* Lidar_pose.collect_lidar_frames, realtime_lidar.main (with              *)
(* safe_atomic_write_json) and Lidar_Continuous_Data.main, statement by    *)
(* statement.  A scan is its number; a file is the sequence of the tokens  *)
(* written to it so far.                                                   *)
(***************************************************************************)
MaxScans == 2       \* most scans decoded in one run

Absent == <<<<"absent", 0>>>>   \* no file of that name exists

Comma == <<",", 0>>

\* The opening and closing brackets a program writes: Lidar_pose dumps a
\* list of frames, the other two an object keyed frame_<n>.
OpenTok(sc) == IF sc = "Lidar_pose" THEN <<"[", 0>> ELSE <<"{", 0>>

CloseTok(sc) == IF sc = "Lidar_pose" THEN <<"]", 0>> ELSE <<"}", 0>>

\* The tokens of the entries of the scans ids, separated by commas.
RECURSIVE Entries(_)
Entries(ids) ==
    IF ids = <<>> THEN <<>>
    ELSE <<<<"key", Head(ids)>>, <<"val", Head(ids)>>>>
         \o (IF Len(ids) > 1 THEN <<Comma>> ELSE <<>>)
         \o Entries(Tail(ids))

\* json.dump(frames, f, indent=2): the complete document of the scans ids
Doc(sc, ids) == <<OpenTok(sc)>> \o Entries(ids) \o <<CloseTok(sc)>>

ScanLists == SeqsUpTo(1..MaxScans, MaxScans)

\* The file holds a complete JSON document.
ValidJSON(sc, f) == \E ids \in ScanLists : f = Doc(sc, ids)

\* The scans a complete document holds.
ScansIn(sc, f) == CHOOSE ids \in ScanLists : f = Doc(sc, ids)

restVars == <<framerVars, decodeVars, icpVars, composeVars, mapVars, sockVars, parseVars>>

\* Where a finished write of the file leads: back to the loop, or to the
\* end of the handler that runs it.
AfterWrite == IF phase = "run" THEN "loop" ELSE "stopped"

\* A telegram was received, framed and decoded: `cart` / `points` / `xs`
\* hold the scan.
ScanArrives ==
    /\ ppc = "loop"
    /\ taken < MaxScans
    /\ taken' = taken + 1
    /\ inflight' = taken + 1
    /\ ppc' = IF script = "Lidar_pose" THEN "append" ELSE "count"
    /\ UNCHANGED <<script, phase, cause, mem_frames, frame_id, first,
                   out_file, tmp_file, leaked>>
    /\ UNCHANGED restVars

\* Lidar_pose: frames.append(frame)
CollectAppend ==
    /\ script = "Lidar_pose"
    /\ ppc = "append"
    /\ mem_frames' = Append(mem_frames, inflight)
    /\ ppc' = "open"
    /\ UNCHANGED <<script, phase, cause, taken, inflight, frame_id, first,
                   out_file, tmp_file, leaked>>
    /\ UNCHANGED restVars

\* Lidar_pose: open(OUTPUT_FILE, "w") truncates the file
CollectOpen ==
    /\ script = "Lidar_pose"
    /\ ppc = "open"
    /\ out_file' = <<>>
    /\ ppc' = "dump"
    /\ UNCHANGED <<script, phase, cause, taken, inflight, mem_frames,
                   frame_id, first, tmp_file, leaked>>
    /\ UNCHANGED restVars

\* Lidar_pose: json.dump(frames, f, indent=2) writes the next piece; after
\* the last one the file is closed (and, in the handler, the socket).
CollectDump ==
    /\ script = "Lidar_pose"
    /\ ppc = "dump"
    /\ LET target == Doc(script, mem_frames)
       IN  /\ out_file' = SubSeq(target, 1, Len(out_file) + 1)
           /\ ppc' = IF Len(out_file) + 1 = Len(target) THEN AfterWrite
                     ELSE "dump"
    /\ UNCHANGED <<script, phase, cause, taken, inflight, mem_frames,
                   frame_id, first, tmp_file, leaked>>
    /\ UNCHANGED restVars

\* realtime_lidar / Lidar_Continuous_Data: frame_id += 1
LiveCount ==
    /\ script \in {"realtime_lidar", "Lidar_Continuous_Data"}
    /\ ppc = "count"
    /\ frame_id' = frame_id + 1
    /\ ppc' = IF script = "realtime_lidar" THEN "store" ELSE "sep"
    /\ UNCHANGED <<script, phase, cause, taken, inflight, mem_frames, first,
                   out_file, tmp_file, leaked>>
    /\ UNCHANGED restVars

\* realtime_lidar: frames[key] = points
LiveStore ==
    /\ script = "realtime_lidar"
    /\ ppc = "store"
    /\ mem_frames' = Append(mem_frames, inflight)
    /\ ppc' = "mkstemp"
    /\ UNCHANGED <<script, phase, cause, taken, inflight, frame_id, first,
                   out_file, tmp_file, leaked>>
    /\ UNCHANGED restVars

\* safe_atomic_write_json: fd, tmp_path = tempfile.mkstemp(...)
Mkstemp ==
    /\ script = "realtime_lidar"
    /\ ppc = "mkstemp"
    /\ tmp_file' = <<>>
    /\ ppc' = "w_dump"
    /\ UNCHANGED <<script, phase, cause, taken, inflight, mem_frames,
                   frame_id, first, out_file, leaked>>
    /\ UNCHANGED restVars

\* safe_atomic_write_json: json.dump(obj, f) writes the next piece to the
\* temporary file; after the last one: newline, flush, fsync, close.
TmpDump ==
    /\ script = "realtime_lidar"
    /\ ppc = "w_dump"
    /\ LET target == Doc(script, mem_frames)
       IN  /\ tmp_file' = SubSeq(target, 1, Len(tmp_file) + 1)
           /\ ppc' = IF Len(tmp_file) + 1 = Len(target) THEN "w_replace"
                     ELSE "w_dump"
    /\ UNCHANGED <<script, phase, cause, taken, inflight, mem_frames,
                   frame_id, first, out_file, leaked>>
    /\ UNCHANGED restVars

\* safe_atomic_write_json: os.replace(tmp_path, path)
Replace ==
    /\ script = "realtime_lidar"
    /\ ppc = "w_replace"
    /\ out_file' = tmp_file
    /\ tmp_file' = Absent
    /\ ppc' = AfterWrite
    /\ UNCHANGED <<script, phase, cause, taken, inflight, mem_frames,
                   frame_id, first, leaked>>
    /\ UNCHANGED restVars

\* safe_atomic_write_json: json.dump, a write or os.replace raises an
\* Exception (disk full, ...): os.remove(tmp_path); raise.  In the loop the
\* exception reaches `except Exception` of main and its finally clause
\* writes once more; raised by that final write it is printed.
WriteFail ==
    /\ script = "realtime_lidar"
    /\ ppc \in {"w_dump", "w_replace"}
    /\ tmp_file' = Absent
    /\ cause' = "error"
    /\ IF phase = "run"
       THEN /\ phase' = "final"
            /\ ppc' = "mkstemp"
       ELSE /\ ppc' = "stopped"
            /\ UNCHANGED phase
    /\ UNCHANGED <<script, taken, inflight, mem_frames, frame_id, first,
                   out_file, leaked>>
    /\ UNCHANGED restVars

\* Lidar_Continuous_Data: if not first: f.write(",\n"); first = False
ContSep ==
    /\ script = "Lidar_Continuous_Data"
    /\ ppc = "sep"
    /\ out_file' = IF first THEN out_file ELSE Append(out_file, Comma)
    /\ first' = FALSE
    /\ ppc' = "key"
    /\ UNCHANGED <<script, phase, cause, taken, inflight, mem_frames,
                   frame_id, tmp_file, leaked>>
    /\ UNCHANGED restVars

\* Lidar_Continuous_Data: f.write(f'  "frame_{frame_id}": ')
ContKey ==
    /\ script = "Lidar_Continuous_Data"
    /\ ppc = "key"
    /\ out_file' = Append(out_file, <<"key", frame_id>>)
    /\ ppc' = "val"
    /\ UNCHANGED <<script, phase, cause, taken, inflight, mem_frames,
                   frame_id, first, tmp_file, leaked>>
    /\ UNCHANGED restVars

\* Lidar_Continuous_Data: f.write(json.dumps(data_points))
ContVal ==
    /\ script = "Lidar_Continuous_Data"
    /\ ppc = "val"
    /\ out_file' = Append(out_file, <<"val", inflight>>)
    /\ ppc' = "loop"
    /\ UNCHANGED <<script, phase, cause, taken, inflight, mem_frames,
                   frame_id, first, tmp_file, leaked>>
    /\ UNCHANGED restVars

\* Ctrl+C: KeyboardInterrupt is raised at the statement being executed and
\* control passes to the handler.  Lidar_pose rewrites the file from
\* `frames`; realtime_lidar runs its finally clause (a temporary file being
\* written is left behind: `except Exception` of safe_atomic_write_json
\* does not catch KeyboardInterrupt); Lidar_Continuous_Data closes the
\* object it is writing.
CtrlC ==
    /\ phase = "run"
    /\ ppc # "stopped"
    /\ phase' = "final"
    /\ cause' = "ctrlc"
    /\ leaked' = (tmp_file # Absent)
    /\ tmp_file' = Absent
    /\ ppc' = CASE script = "Lidar_pose" -> "open"
                [] script = "realtime_lidar" -> "mkstemp"
                [] OTHER -> "close"
    /\ UNCHANGED <<script, taken, inflight, mem_frames, frame_id, first,
                   out_file>>
    /\ UNCHANGED restVars

\* Lidar_Continuous_Data, handler: f.write("\n}\n"); f.close()
ContClose ==
    /\ script = "Lidar_Continuous_Data"
    /\ ppc = "close"
    /\ out_file' = Append(out_file, CloseTok(script))
    /\ ppc' = "stopped"
    /\ UNCHANGED <<script, phase, cause, taken, inflight, mem_frames,
                   frame_id, first, tmp_file, leaked>>
    /\ UNCHANGED restVars

\* The loops are entered with nothing captured; Lidar_Continuous_Data has
\* opened its file and written "{".
InitPersist ==
    /\ FramerIdle
    /\ DecodeIdle
    /\ IcpIdle
    /\ ComposeIdle
    /\ MapIdle
    /\ SockIdle
    /\ ParseIdle
    /\ script \in {"Lidar_pose", "realtime_lidar", "Lidar_Continuous_Data"}
    /\ ppc = "loop"
    /\ phase = "run"
    /\ cause = "none"
    /\ taken = 0
    /\ inflight = 0
    /\ mem_frames = <<>>
    /\ frame_id = 0
    /\ first = TRUE
    /\ out_file = IF script = "Lidar_Continuous_Data" THEN <<OpenTok(script)>>
                  ELSE Absent
    /\ tmp_file = Absent
    /\ leaked = FALSE

NextPersist ==
    \/ ScanArrives
    \/ CollectAppend
    \/ CollectOpen
    \/ CollectDump
    \/ LiveCount
    \/ LiveStore
    \/ Mkstemp
    \/ TmpDump
    \/ Replace
    \/ WriteFail
    \/ ContSep
    \/ ContKey
    \/ ContVal
    \/ CtrlC
    \/ ContClose

SpecPersist == InitPersist /\ [][NextPersist]_vars

(***************************************************************************)
(* The scan decoders side by side, each handed one frame.                  *)
(***************************************************************************)
MaxCarried == 2     \* most range tokens a frame handed to the decoders carries

\* A 32-bit quantity is kept as <<hi, lo>>, standing for hi * 65536 + lo
\* with lo in 0..65535: int(tok, 16) of a token of up to eight digits.
Wide(tok) ==
    LET n == Len(tok)
    IN  IF n <= 4 THEN <<0, HexVal(tok)>>
        ELSE <<HexVal(SubSeq(tok, 1, n - 4)), HexVal(SubSeq(tok, n - 3, n))>>

WideOf(n) == <<n \div 65536, n % 65536>>

\* para.py: v - 0x100000000 if (v & 0x80000000) else v
twos_complement_32(w) == IF w[1] >= 32768 THEN <<w[1] - 65536, w[2]>> ELSE w

\* What a decoder and its caller make of one frame: "none" (not a scan
\* frame, dropped), "raised" (an exception nobody catches) or "scan" with
\* the start angle (1/10000 degree), the step (degrees), the positions of
\* the tokens read as range data, the ranges read from them, the number of
\* entries appended behind them, and whether a warning was printed.
NotAScan ==
    [status |-> "none", start |-> None, step |-> None, tokens |-> <<>>,
     ranges |-> <<>>, pad |-> 0, flagged |-> FALSE]

Raised == [NotAScan EXCEPT !.status = "raised"]

Scan(start, step, at, ranges, pad, flagged) ==
    [status |-> "scan", start |-> start, step |-> step, tokens |-> at,
     ranges |-> ranges, pad |-> pad, flagged |-> flagged]

\* The 1-based positions of the tokens tokens[lo:hi] (0-based, hi exclusive).
Positions(p, lo, hi) ==
    LET h == IF hi > Len(p) THEN Len(p) ELSE hi
    IN  IF lo >= h THEN <<>> ELSE [i \in 1..(h - lo) |-> lo + i]

\* Lidar_pose.py: the caller's test for "LMDscandata", parse_and_resample up
\* to the measured angles.  The start angle is START_ANGLE and the step is
\* SPAN_DEG / (len(values) - 1), whatever the frame says.
pose_decode(p) ==
    IF ~Contains(p, LMDscandata) \/ ~CountOk(p) THEN NotAScan
    ELSE LET raw == RawHex(p)
             v == Values(raw)
             start == Find(p, DIST1, 0) + 5
         IN  Scan(WideOf(START_ANGLE[1] * 10000),
                  IF Len(v) = 1 THEN None
                  ELSE RDiv(SPAN_DEG, RInt(Len(v) - 1)),
                  Positions(p, start, start + Len(raw)), v, 0, FALSE)

sRA == <<"s", "R", "A">>
sSN == <<"s", "S", "N">>

\* para.py: parse_lmdscandata_ranges_m and the loop of main().  The three
\* header fields are read outside any try: a missing or non-hexadecimal one
\* raises, and so does a non-hexadecimal range token.
parse_lmdscandata_ranges_m(t) ==
    IF Len(t) < 10 \/ t[1] \notin {sRA, sSN} \/ t[2] # LMDscandata
    THEN NotAScan
    ELSE IF ~Contains(t, DIST1) THEN NotAScan
    ELSE LET i == Find(t, DIST1, 0)
         IN  IF i + 5 >= Len(t) \/ \E k \in 4..6 : ~HexOk(t[i + k])
             THEN Raised
             ELSE LET start_angle_1e4 == twos_complement_32(Wide(t[i + 4]))
                      step_1e4 == HexVal(t[i + 5])
                      count == HexVal(t[i + 6])
                      data == Slice(t, i + 6, i + 6 + count)
                  IN  IF Len(data) # count \/ count = 0 THEN NotAScan
                      ELSE IF \E k \in 1..count : ~HexOk(data[k]) THEN Raised
                      ELSE Scan(start_angle_1e4, Rat(step_1e4, 10000),
                                Positions(t, i + 6, i + 6 + count),
                                [k \in 1..count |->
                                    IF HexVal(data[k]) >= 16
                                    THEN Rat(HexVal(data[k]), 1000)
                                    ELSE None],
                                0, FALSE)

\* struct.unpack('>f', bytes.fromhex(tok)) succeeds on eight hex digits.
\* The modelled frames carry the scale factors 1.0 and 2.0 only.
ScaleOk(tok) == Len(tok) = 8 /\ HexOk(tok)
ScaleVal(tok) ==
    IF tok = <<"4", "0", "0", "0", "0", "0", "0", "0">> THEN 2 ELSE 1

\* LIDAR/lidar_live_data.py: parse_lmd_scandata.  Every exception inside
\* the try makes it return None; the start angle is int(tok, 16) / 10000.
parse_lmd_scandata(p) ==
    IF ~Contains(p, LMDscandata) \/ ~Contains(p, DIST1) THEN NotAScan
    ELSE LET i == Find(p, DIST1, 0)
         IN  IF \/ i + 5 >= Len(p)
                \/ ~ScaleOk(p[i + 2])
                \/ \E k \in 4..6 : ~HexOk(p[i + k])
             THEN NotAScan
             ELSE LET scale == ScaleVal(p[i + 2])
                      count == HexVal(p[i + 6])
                      vals == Slice(p, i + 6, i + 6 + count)
                  IN  IF \E k \in 1..Len(vals) : ~HexOk(vals[k]) THEN NotAScan
                      ELSE Scan(Wide(p[i + 4]), Rat(HexVal(p[i + 5]), 10000),
                                Positions(p, i + 6, i + 6 + count),
                                [k \in 1..Len(vals) |->
                                    LET raw == HexVal(vals[k])
                                    IN  IF 0 < raw /\ raw < 65535
                                        THEN Rat(raw * scale, 1000)
                                        ELSE None],
                                0, FALSE)

\* distances.append(int(token, 16)), or 0 when int() raises
ReadOrZero(toks) ==
    [k \in 1..Len(toks) |-> IF HexOk(toks[k]) THEN HexVal(toks[k]) ELSE 0]

\* Lidar_live_reading_data.py: parse_ascii_frame.  The geometry is read at
\* the fixed positions 23 and 24, unsigned, with -135 degrees and 0.3333
\* degrees when either cannot be read; the count is the token after DIST1.
live_parse_ascii_frame(p) ==
    IF ~Contains(p, LMDscandata) \/ ~Contains(p, DIST1) THEN NotAScan
    ELSE LET dist_idx == Find(p, DIST1, 0)
             geo == Len(p) > 24 /\ HexOk(p[24]) /\ HexOk(p[25])
             start == IF geo THEN Wide(p[24]) ELSE WideOf(-1350000)
             step == IF geo THEN Rat(HexVal(p[25]), 10000) ELSE Rat(3333, 10000)
         IN  IF dist_idx + 1 >= Len(p) \/ ~HexOk(p[dist_idx + 2]) THEN NotAScan
             ELSE LET num_points == HexVal(p[dist_idx + 2])
                      available_tokens == Len(p) - (dist_idx + 2)
                      safe_count == IF num_points < available_tokens
                                    THEN num_points ELSE available_tokens
                  IN  Scan(start, step,
                           Positions(p, dist_idx + 2, dist_idx + 2 + safe_count),
                           ReadOrZero(Slice(p, dist_idx + 2, dist_idx + 2 + safe_count)),
                           0, safe_count < num_points)

\* for tok in tokens: ...   the geometry is guessed from the value of every
\* hexadecimal token of the frame, a later one overwriting an earlier one.
\* No token carries a sign, so val & (1 << 31) is 0 whenever abs(val) lies
\* under 4000000.
RECURSIVE GuessGeometry(_, _, _, _)
GuessGeometry(toks, i, start, step) ==
    IF i > Len(toks) THEN <<start, step>>
    ELSE IF ~HexOk(toks[i]) THEN GuessGeometry(toks, i + 1, start, step)
    ELSE LET val == HexVal(toks[i])
         IN  GuessGeometry(toks, i + 1,
                 IF val > 100000 /\ val < 4000000 THEN WideOf(val) ELSE start,
                 IF 1 < val /\ val < 20000 THEN Rat(val, 10000) ELSE step)

\* Lidar_Continuous_Data.py: parse_ascii_frame.  range(num_points) is not
\* cut to the tokens there are: every index past the end appends a 0.
\* (num_points is int(tok, 16) up to HexCap.)
cont_parse_ascii_frame(p) ==
    IF ~Contains(p, LMDscandata) \/ ~Contains(p, DIST1) THEN NotAScan
    ELSE LET dist_idx == Find(p, DIST1, 0)
         IN  IF dist_idx + 1 >= Len(p) \/ ~HexOk(p[dist_idx + 2]) THEN NotAScan
             ELSE LET num_points == HexVal(p[dist_idx + 2])
                      there == Slice(p, dist_idx + 2, dist_idx + 2 + num_points)
                      geo == GuessGeometry(p, 1, WideOf(-450000), Rat(3333, 10000))
                  IN  Scan(geo[1], geo[2],
                           Positions(p, dist_idx + 2, dist_idx + 2 + num_points),
                           ReadOrZero(there), num_points - Len(there), FALSE)

\* The positions of the first NUM_POINTS hexadecimal tokens after DIST1.
RECURSIVE CollectPositions(_, _, _)
CollectPositions(p, i, acc) ==
    IF i > Len(p) \/ Len(acc) >= NUM_POINTS THEN acc
    ELSE CollectPositions(p, i + 1, IF HexOk(p[i]) THEN Append(acc, i) ELSE acc)

\* realtime_lidar.py: parse_ascii_frame with the geometry of
\* polar_to_point_objects (START_ANGLE, STEP_ANGLE).
realtime_decode(p) ==
    LET d == parse_ascii_frame(p)
    IN  IF ~d.ok THEN NotAScan
        ELSE LET at == CollectPositions(p, Find(p, DIST1, 0) + 2, <<>>)
             IN  Scan(WideOf(START_ANGLE[1] * 10000), STEP_ANGLE, at,
                      SubSeq(d.distances, 1, Len(at)),
                      NUM_POINTS - Len(at), FALSE)

(***************************************************************************)
(* The frames handed to the decoders.  After "sRA LMDscandata" the device  *)
(* sends eighteen fields of status, counters, times and frequencies, then  *)
(* DIST1, the scale factor, the start angle, the step, the count and the   *)
(* range tokens; with layout "offset" a scale offset follows the scale     *)
(* factor, as the decoders reading the start angle at DIST1 + 3 expect.    *)
(***************************************************************************)
Preamble == [i \in 1..18 |-> <<"0">>]
ScaleTok == <<"3", "F", "8", "0", "0", "0", "0", "0">>
NotHex == <<"Z", "Z">>
StartTokens == {<<"F", "F", "F", "9", "2", "2", "3", "0">>, <<"F", "F", "F", "C", "F", "2", "C", "0">>, <<"3", "0", "D", "4", "0">>, NotHex}
StepTokens == {<<"D", "0", "5">>, <<"1", "3", "8", "8">>, NotHex}
CountTokens == {HexTok(c) : c \in 0..(MaxCarried + 1)} \cup {NotHex}
CarriedTokens == {<<"3", "E", "8">>, <<"7", "D", "0">>, NotHex}
Tails == {<<>>, <<RSSI1, <<"3", "E", "8">>>>, <<<<"1">>, RSSI1, <<"3", "E", "8">>>>}
Layouts == {"plain", "offset"}

Frame(cmd, marker, lay, start, step, count, samples, tail) ==
    <<sRA, cmd>> \o Preamble \o <<marker, ScaleTok>>
        \o (IF lay = "offset" THEN <<<<"0">>>> ELSE <<>>)
        \o <<start, step, count>> \o samples \o tail

\* Frames with both markers: every geometry, count, samples and tail.
MarkedFrames(l) ==
    {Frame(LMDscandata, DIST1, l, a, s, c, d, t) :
        a \in StartTokens, s \in StepTokens,
        c \in CountTokens, d \in SeqsUpTo(CarriedTokens, MaxCarried),
        t \in Tails}

\* Frames lacking the scan-data marker, the distance-block marker or both.
LIDoutputstate == <<"L", "I", "D", "o", "u", "t", "p", "u", "t", "s", "t", "a", "t", "e">>
UnmarkedFrames(l) ==
    {Frame(m[1], m[2], l, <<"F", "F", "F", "9", "2", "2", "3", "0">>, <<"D", "0", "5">>, c, d, <<>>) :
        m \in {<<LIDoutputstate, DIST1>>, <<LMDscandata, <<"0">>>>,
                <<LIDoutputstate, <<"0">>>>},
        c \in CountTokens, d \in SeqsUpTo(CarriedTokens, MaxCarried)}

\* Frames cut off inside the header of the distance block.
TruncatedFrames(l) ==
    {Slice(Frame(LMDscandata, DIST1, l, <<"F", "F", "F", "9", "2", "2", "3", "0">>, <<"D", "0", "5">>, <<"1">>, <<>>, <<>>), 0, k) :
        k \in 21..24}

ParseInputs(l) == MarkedFrames(l) \cup UnmarkedFrames(l) \cup TruncatedFrames(l)

DecodePose ==
    /\ telegram # <<>> /\ decoder = "none"
    /\ decoder' = "pose"
    /\ decoded' = pose_decode(telegram)
    /\ UNCHANGED <<telegram, layout>>
    /\ UNCHANGED <<framerVars, decodeVars, icpVars, composeVars, mapVars, sockVars, persistVars>>

DecodePara ==
    /\ telegram # <<>> /\ decoder = "none"
    /\ decoder' = "para"
    /\ decoded' = parse_lmdscandata_ranges_m(telegram)
    /\ UNCHANGED <<telegram, layout>>
    /\ UNCHANGED <<framerVars, decodeVars, icpVars, composeVars, mapVars, sockVars, persistVars>>

DecodeLiveData ==
    /\ telegram # <<>> /\ decoder = "none"
    /\ decoder' = "live_data"
    /\ decoded' = parse_lmd_scandata(telegram)
    /\ UNCHANGED <<telegram, layout>>
    /\ UNCHANGED <<framerVars, decodeVars, icpVars, composeVars, mapVars, sockVars, persistVars>>

DecodeLiveReading ==
    /\ telegram # <<>> /\ decoder = "none"
    /\ decoder' = "live_reading"
    /\ decoded' = live_parse_ascii_frame(telegram)
    /\ UNCHANGED <<telegram, layout>>
    /\ UNCHANGED <<framerVars, decodeVars, icpVars, composeVars, mapVars, sockVars, persistVars>>

DecodeContinuous ==
    /\ telegram # <<>> /\ decoder = "none"
    /\ decoder' = "continuous"
    /\ decoded' = cont_parse_ascii_frame(telegram)
    /\ UNCHANGED <<telegram, layout>>
    /\ UNCHANGED <<framerVars, decodeVars, icpVars, composeVars, mapVars, sockVars, persistVars>>

DecodeRealtime ==
    /\ telegram # <<>> /\ decoder = "none"
    /\ decoder' = "realtime"
    /\ decoded' = realtime_decode(telegram)
    /\ UNCHANGED <<telegram, layout>>
    /\ UNCHANGED <<framerVars, decodeVars, icpVars, composeVars, mapVars, sockVars, persistVars>>

\* The ranges of a canonical scan, as a list of values.
RangesOf(pts) == [i \in 1..Len(pts) |-> pts[i].range]

\* The resampling half of parse_and_resample applied to the values of a
\* decoded frame, and then again to the canonical scan it returned.
ResampleAgain ==
    /\ decoder = "pose" /\ decoded.status = "scan"
    /\ decoder' = "pose_twice"
    /\ \E once \in {Resample(decoded.ranges)} :
           decoded' = [status |-> "resampled", once |-> once,
                       twice |-> Resample(RangesOf(once))]
    /\ UNCHANGED <<telegram, layout>>
    /\ UNCHANGED <<framerVars, decodeVars, icpVars, composeVars, mapVars, sockVars, persistVars>>

InitParse ==
    /\ FramerIdle
    /\ DecodeIdle
    /\ IcpIdle
    /\ ComposeIdle
    /\ MapIdle
    /\ SockIdle
    /\ PersistIdle
    /\ layout \in Layouts
    /\ telegram \in ParseInputs(layout)
    /\ decoder = "none"
    /\ decoded = <<>>

NextParse ==
    \/ DecodePose
    \/ DecodePara
    \/ DecodeLiveData
    \/ DecodeLiveReading
    \/ DecodeContinuous
    \/ DecodeRealtime
    \/ ResampleAgain

SpecParse == InitParse /\ [][NextParse]_vars

(***************************************************************************)
(* Framer claims.                                                          *)
(***************************************************************************)
\* A block handed to the decoder is telegram t, with or without its markers.
IsWhole(block, t) == block = t \/ block = <<STX>> \o t \o <<ETX>>

\* C1: for any split of a well-formed stream into reads, timed-out reads
\* included, the i-th block handed to the decoder is the i-th telegram of
\* the stream, whole: none twice, none truncated.
C1_WholeTelegramsOnly ==
    WellFormed(stream) =>
        \A i \in 1..Len(emitted) :
            /\ i <= Len(Telegrams(stream))
            /\ IsWhole(emitted[i], Telegrams(stream)[i])

\* The buffered framer (Lidar_pose.py) does honour C1 on well-formed streams.
BufferedFramerWhole == variant = "pose" => C1_WholeTelegramsOnly

\* The buffer holds a start marker followed later by an end marker.
HasFrame(b) == \E i, j \in 1..Len(b) : i < j /\ b[i] = STX /\ b[j] = ETX

\* First start marker of b and the first end marker after it (1-based).
FirstSTX(b) == CHOOSE i \in 1..Len(b) :
                   b[i] = STX /\ \A h \in 1..(i - 1) : b[h] # STX
NextETX(b) == CHOOSE j \in (FirstSTX(b) + 1)..Len(b) :
                  b[j] = ETX /\ \A h \in (FirstSTX(b) + 1)..(j - 1) : b[h] # ETX

\* C2: while the extraction loop runs on a buffer holding STX ... ETX, each
\* pass emits the bytes strictly between the first STX and the first ETX
\* after it and drops everything up to and including that ETX; when the
\* loop exits, no STX followed by an ETX is left in the buffer.
C2_ExtractionLoop ==
    [][ /\ (pc = "extract" /\ HasFrame(buffer)) =>
            /\ emitted' = Append(emitted,
                   SubSeq(buffer, FirstSTX(buffer) + 1, NextETX(buffer) - 1))
            /\ buffer' = SubSeq(buffer, NextETX(buffer) + 1, Len(buffer))
        /\ (pc = "extract" /\ pc' # "extract") => ~HasFrame(buffer')
      ]_vars

\* C2 witness: the loop has emitted two frames in one cycle and exited with
\* an unterminated telegram left in the buffer.
C2_Witness ==
    /\ pc = "recv"
    /\ Len(emitted) = 2
    /\ wire = <<>>
    /\ Contains(buffer, STX)

\* C3: framing errors are never fatal: the extraction loop never raises,
\* not even on a buffer whose only ETX precedes the first STX.
C3_FramingNeverFatal == pc # "crashed"

(***************************************************************************)
(* Decoder and resampler claims.                                           *)
(***************************************************************************)
\* The canonical layout: POINT_COUNT angles from -45 to +225 degrees
\* inclusive, evenly spaced.
LayoutAngle(j) == Rat(-45 * (POINT_COUNT - 1) + 270 * (j - 1), POINT_COUNT - 1)

HasLayout(pts) ==
    /\ Len(pts) = POINT_COUNT
    /\ \A j \in 1..Len(pts) : pts[j].angle = LayoutAngle(j)
    /\ pts[1].angle = RInt(-45)
    /\ pts[Len(pts)].angle = RInt(225)

\* C4: every scan the decoder/resampler produces has exactly the canonical
\* point count and the canonical angle layout, whatever number of range
\* tokens the telegram carried.
C4_CanonicalLength ==
    /\ polar.ok => HasLayout(polar.pts)
    /\ (dpc \notin {"parse", "project"} /\ polar.ok) => HasLayout(cart)
    /\ (dpc \in {"scan_to_xy", "done"} /\ distances.ok) => HasLayout(points)

\* C4 witness: a telegram carrying more range tokens than the canonical
\* count has been resampled.
C4_Witness ==
    /\ dpc = "done"
    /\ polar.ok
    /\ Len(values) > POINT_COUNT
    /\ \E i \in 1..Len(values) : values[i] # None

\* The reference resampler of C5 on the decoded samples v at angle a.
RefValid(v) == {i \in 1..Len(v) : v[i] # None}
RefFirst(v) == CHOOSE i \in RefValid(v) : \A k \in RefValid(v) : i <= k
RefLast(v) == CHOOSE i \in RefValid(v) : \A k \in RefValid(v) : k <= i
RefAngle(v, i) ==
    IF Len(v) = 1 THEN RInt(-45)
    ELSE Rat(-45 * (Len(v) - 1) + 270 * (i - 1), Len(v) - 1)

RefBracket(v, a) ==
    CHOOSE b \in RefValid(v) \X RefValid(v) :
        /\ b[1] < b[2]
        /\ \A k \in RefValid(v) : ~(b[1] < k /\ k < b[2])
        /\ RLt(RefAngle(v, b[1]), a)
        /\ RLe(a, RefAngle(v, b[2]))

RefRange(v, a) ==
    IF RefValid(v) = {} THEN None
    ELSE IF RLe(a, RefAngle(v, RefFirst(v))) THEN v[RefFirst(v)]
    ELSE IF RLe(RefAngle(v, RefLast(v)), a) THEN v[RefLast(v)]
    ELSE LET i == RefBracket(v, a)[1]
             k == RefBracket(v, a)[2]
             x0 == RefAngle(v, i)
             x1 == RefAngle(v, k)
             w1 == RDiv(RSub(a, x0), RSub(x1, x0))
             w0 == RDiv(RSub(x1, a), RSub(x1, x0))
         IN  RAdd(RMul(w0, v[i]), RMul(w1, v[k]))

NonNull(pts) == Cardinality({j \in 1..Len(pts) : pts[j].range # None})

\* C6: a canonical entry with a null range contributes no point to the
\* cloud handed to the matcher and the map: the cloud has as many points as
\* the scan has non-null entries, and none of them is a NaN or an origin
\* point standing for a null.
C6_NullContributesNoPoint ==
    (dpc = "done" /\ polar.ok) =>
        /\ Len(scanA) = NonNull(polar.pts)
        /\ Len(scan_to_xy(cart)) = NonNull(polar.pts)

\* The validity rule of C7 for one range token.
RangeInvalid(tok) ==
    \/ ~HexOk(tok)
    \/ HexVal(tok) = 0
    \/ HexVal(tok) < MIN_DIST
    \/ HexVal(tok) > MAX_DIST

\* C7: the i-th range token decodes to null exactly when it is 0, outside
\* [MIN_DIST, MAX_DIST] or not hexadecimal, and to its own value at its own
\* index otherwise.
C7_InvalidExactly ==
    (dpc # "parse" /\ CountOk(parts) /\ Len(RawHex(parts)) > 0) =>
        /\ Len(values) = Len(RawHex(parts))
        /\ \A i \in 1..Len(values) :
               values[i] = IF RangeInvalid(RawHex(parts)[i]) THEN None
                           ELSE Rat(HexVal(RawHex(parts)[i]), 1000)


(***************************************************************************)
(* Scan matcher and pose chain claims.                                     *)
(***************************************************************************)
\* M is orthonormal with determinant +1.
IsRotation(M) == Mat2Mul(M, Transpose2(M)) = Eye2 /\ Det2(M) = One

\* C8: every rigid transform the scan matcher produces - the best fit of an
\* iteration, the accumulated transform, and the transform it returns - has
\* an orthonormal rotation block of determinant +1, never -1.
C8_RotationProper ==
    /\ (fit # <<>> /\ fit.exact) => IsRotation(fit.R)
    /\ T # <<>> => IsRotation(RotBlock(T))
    /\ result # <<>> => IsRotation(RotBlock(result.T))

\* C8 witness: the matcher has returned after an iteration whose
\* factorization gave a reflection, so that the correction was applied.
C8_Witness ==
    /\ ipc = "returned"
    /\ fit # <<>>
    /\ fit.exact
    /\ RLt(Det2(fit.svd.raw.m), Zero)

\* d maps the points of s onto the points of d2, index by index.
ShiftOf(s, d2) == PSub(d2[1], s[1])
PureShift(s, d2) ==
    /\ Len(s) = Len(d2)
    /\ \A n \in 1..Len(s) : d2[n] = PAdd(s[n], ShiftOf(s, d2))

\* C9: when the destination is the source shifted by a pure translation d,
\* the matcher returns the translation d (so of magnitude |d|) and the
\* identity rotation, whatever the iteration cap.
C9_PureTranslationRecovered ==
    (ipc = "returned" /\ PureShift(src, dst)) =>
        /\ RotBlock(result.T) = Eye2
        /\ Translation(result.T) = ShiftOf(src, dst)

\* The points of scan n (counted from 1) that the matcher is given.
MatchedScan(n) ==
    IF program = "Lidar_pose" THEN Downsample(scans[n], DOWNSAMPLE_STEP)
    ELSE scans[n]

\* C10: the pose chain hands the matcher the current scan as source and the
\* previous scan as destination, so that whenever the matcher's transform
\* takes its source onto its destination, the new absolute pose puts the
\* points of the current scan where the previous pose put the same points
\* of the previous scan.
C10_PoseChainDirection ==
    /\ ipc \in {"icp", "returned", "inexact"} =>
          /\ src = MatchedScan(scan_k + 1)
          /\ dst = MatchedScan(scan_k)
    /\ (ipc = "pose_loop" /\ Len(poses) >= 2
            /\ Move(src, result.T) = dst) =>
          Move(MatchedScan(scan_k), poses[Len(poses)])
              = Move(MatchedScan(scan_k - 1), poses[Len(poses) - 1])


\* C11: the trajectory starts with the identity pose; every step either
\* leaves it alone or appends exactly one pose, the last pose composed with
\* the relative transform the matcher returned for the scan; earlier poses
\* are never changed or removed, and the trajectory has one pose per scan
\* processed so far (scan_k of them), all of the scans at the end.
C11_TrajectoryAppendOnly ==
    /\ [](poses # <<>> =>
            /\ poses[1] = Eye3
            /\ Len(poses) = scan_k
            /\ ipc = "done" => Len(poses) = Len(scans))
    /\ [][\/ poses' = poses
          \/ poses = <<>> /\ poses' = <<Eye3>>
          \/ /\ poses # <<>>
             /\ ipc = "returned"
             /\ poses' = Append(poses, Mat3Mul(poses[Len(poses)], result.T))]_vars

\* C11 witness: a file of three scans has been processed, and the third
\* pose differs from the second.
C11_Witness ==
    /\ ipc = "done"
    /\ Len(poses) = 3
    /\ poses[3] # poses[2]

\* C12: applying the composition of (R2, t2) after (R1, t1) to a point
\* equals applying (R1, t1) and then (R2, t2) to it; the same holds for the
\* product of the homogeneous matrices, which is the same transform.
C12_CompositionCorrect ==
    cpc = "done" =>
        /\ compose_out.direct = compose_out.stepwise
        /\ compose_out.direct_h = compose_out.stepwise
        /\ compose_out.h = Homogeneous(compose_out.c.R, compose_out.c.t)

\* C12 witness: two transforms that do not commute have been composed and
\* applied to more than one point.
C12_Witness ==
    /\ cpc = "done"
    /\ Len(compose_in.pts) > 1
    /\ compose_out.c # compose_transform_Rt(compose_in.R1, compose_in.t1,
                                             compose_in.R2, compose_in.t2)

\* The matcher reported registration failure: the identity transform with
\* an infinite error.
RegistrationFailed == result # <<>> /\ result.T = Eye3 /\ result.error = Inf

\* C13: when the matcher has reported registration failure for a scan, the
\* step of the pose chain that takes its result appends exactly the
\* previous absolute pose, unchanged, and nothing else.
C13_FailureKeepsPose ==
    [][(ipc = "returned" /\ RegistrationFailed /\ ipc' # "returned") =>
           poses' = Append(poses, poses[Len(poses)])]_vars

\* C13 witness: a scan failed to register after an earlier one had moved
\* the pose away from the identity, and its pose repeats the previous one.
C13_Witness ==
    /\ ipc = "pose_loop"
    /\ RegistrationFailed
    /\ Len(poses) = 3
    /\ poses[2] # Eye3
    /\ poses[3] = poses[2]
\* The number of correspondences the pass about to run hands to the best
\* fit: in icp_2d after the fallback to the unfiltered set, in
\* icp_point_to_point the matches closer than MAX_MATCH_DIST.  The nearest
\* distances, hence the count, are the same for every choice among ties.
Correspondences ==
    LET idx == CHOOSE c \in NearestChoices(src_transformed, dst) : TRUE
        dists == [n \in 1..Len(src_transformed) |->
                     Dist2(src_transformed[n], dst[idx[n]])]
    IN  IF program = "Lidar_pose" THEN Len(KeptIdx(dists))
        ELSE Len(MatchIdx(dists, 1))

\* C14: a pass of the matcher returns identity with infinite error exactly
\* when it has fewer than 3 valid correspondences (after the fallback),
\* and never computes a transform from fewer than 3 pairs.
C14_AbortBelowThree ==
    [][(ipc = "icp" /\ iter < max_iterations /\ <<ipc, iter, fit>>' # <<ipc, iter, fit>>) =>
           ((Correspondences < 3) <=>
                (ipc' = "returned" /\ result'.T = Eye3 /\ result'.error = Inf))]_vars
\* x > 1 / n for a rational x >= 0, without forming x[1] * n
AboveInverse(x, n) == x[1] > x[2] \div n

\* The residual `now` exceeds the residual `before` by more than the
\* tolerance of the matcher that computed them.
Increased(before, now) ==
    /\ RLt(before, now)
    /\ AboveInverse(RSub(now, before),
                    IF program = "Lidar_pose" THEN TOLERANCE_INV ELSE ICP_TOL_INV)

\* C15: within one call of the matcher the mean residual of a pass is never
\* greater, beyond the tolerance, than the mean residual of the pass before.
C15_ResidualNonIncreasing ==
    [][(ipc = "icp" /\ prev_error \notin {None, Inf} /\ ipc' = "icp"
           /\ prev_error' # prev_error) =>
           ~Increased(prev_error, prev_error')]_vars
\* The grid built from the accumulated world points followed by a
\* repetition of the same points has the same cells as the grid built from
\* the accumulated points alone, none with a smaller count.
RepeatNotSmaller ==
    ipc = "mapped" =>
        LET all_pts == Vstack(all_world_points)
            again == build_map(all_pts \o all_pts, MAP_RESOLUTION, MAP_PADDING)
        IN  /\ again.extent = grid_extent
            /\ DOMAIN again.H = DOMAIN grid_H
            /\ \A i \in DOMAIN grid_H :
                   /\ DOMAIN again.H[i] = DOMAIN grid_H[i]
                   /\ \A j \in DOMAIN grid_H[i] : again.H[i][j] >= grid_H[i][j]

\* C16: repeating the accumulated points never yields a smaller count in any
\* cell, and no step decrements or evicts: the accumulated points only grow
\* by whole scans and a grid once built is not changed.
C16_GridMonotonic ==
    /\ []RepeatNotSmaller
    /\ [][/\ \/ all_world_points' = all_world_points
              \/ /\ Len(all_world_points') = Len(all_world_points) + 1
                 /\ SubSeq(all_world_points', 1, Len(all_world_points)) = all_world_points
           /\ grid_H # <<>> => grid_H' = grid_H]_vars

\* C16 witness: a grid was built from three scans; it has a cell hit more
\* than once and an empty cell.
C16_Witness ==
    /\ ipc = "mapped"
    /\ Len(all_world_points) = 3
    /\ \E i \in DOMAIN grid_H : \E j \in DOMAIN grid_H[i] : grid_H[i][j] > 1
    /\ \E i \in DOMAIN grid_H : \E j \in DOMAIN grid_H[i] : grid_H[i][j] = 0
\* C17: once recv returns no bytes the acquisition loop is eventually left
\* for the shutdown, and no block handed to the decoder after the closure
\* ends with the unterminated partial telegram.
C17_ClosureShutsDown ==
    /\ (closed /\ wire = <<>>) ~> (pc = "shutdown")
    /\ [][(closed /\ emitted' # emitted /\ PartialTail(stream) # <<>>) =>
              LET block == emitted'[Len(emitted')]
                  tail == PartialTail(stream)
              IN  ~(Len(block) >= Len(tail) /\
                    SubSeq(block, Len(block) - Len(tail) + 1, Len(block)) = tail)]_vars
\* The number of scans the program reports as captured when it stops:
\* len(frames) in Lidar_pose, frame_id in the other two.
Captured == IF script = "Lidar_pose" THEN Len(mem_frames) ELSE frame_id

\* C18: after a Ctrl+C the output file is a complete document (no
\* half-written scan), it holds the scan that was in flight when the signal
\* came, and it holds as many scans as are counted as captured.
C18_StopCompletesScan ==
    (ppc = "stopped" /\ cause = "ctrlc") =>
        /\ ValidJSON(script, out_file)
        /\ LET persisted == ScansIn(script, out_file)
           IN  /\ inflight # 0 => \E n \in 1..Len(persisted) : persisted[n] = inflight
               /\ Captured = Len(persisted)

\* C19: the path always holds a complete document (or does not exist yet),
\* a step changes it only by os.replace to the new document, and whenever
\* safe_atomic_write_json is not running, whether it returned or failed, no
\* temporary file is left.
C19_AtomicWrite ==
    /\ [](script = "realtime_lidar" =>
            /\ out_file = Absent \/ ValidJSON(script, out_file)
            /\ ppc \notin {"w_dump", "w_replace"} => tmp_file = Absent /\ ~leaked)
    /\ [][script = "realtime_lidar" =>
            \/ out_file' = out_file
            \/ ppc = "w_replace" /\ out_file' = Doc(script, mem_frames)]_vars
\* The 0-based position of the last start marker before position e of b.
LastStartBefore(b, e) ==
    CHOOSE i \in 0..(e - 1) :
        b[i + 1] = STX /\ \A j \in (i + 1)..(e - 1) : b[j + 1] # STX

\* C20: every frame emitted is the bytes between the last start marker
\* before the end marker and that end marker (what precedes a later start
\* marker is discarded), so no emitted frame contains STX or ETX.
C20_ResyncOnStart ==
    /\ [][emitted' # emitted =>
              emitted'[Len(emitted')] =
                  Slice(buffer, LastStartBefore(buffer, ExtractE(buffer)) + 1,
                        ExtractE(buffer))]_vars
    /\ [](\A i \in 1..Len(emitted) :
             ~Contains(emitted[i], STX) /\ ~Contains(emitted[i], ETX))

(***************************************************************************)
(* Decoder claims.                                                         *)
(***************************************************************************)
\* The frame lacks a marker, or one of the four tokens after DIST1 (header
\* fields in either layout) is missing or not hexadecimal.
Malformed(p) ==
    \/ ~Contains(p, LMDscandata)
    \/ ~Contains(p, DIST1)
    \/ Find(p, DIST1, 0) + 4 >= Len(p)
    \/ \E k \in 2..5 : ~HexOk(p[Find(p, DIST1, 0) + k])

\* C21: a frame lacking "LMDscandata" or "DIST1", or whose geometry or count
\* tokens after DIST1 are missing or unparsable, is decoded as "not a scan
\* frame": no exception escapes, the frame is dropped, nothing is appended.
C21_MalformedIsNotAScan ==
    decoder \in {"pose", "para"} /\ Malformed(telegram) =>
        decoded.status = "none"

\* The 0-based position of the count field of a frame with both markers.
CountAt(p) == Find(p, DIST1, 0) + (IF layout = "offset" THEN 5 ELSE 4)

\* A frame with both markers and a whole, parsable header.
HeaderOk(p) ==
    /\ Contains(p, LMDscandata) /\ Contains(p, DIST1)
    /\ CountAt(p) < Len(p)
    /\ \A k \in (Find(p, DIST1, 0) + 2)..(CountAt(p) + 1) : HexOk(p[k])

Declared(p) == HexVal(p[CountAt(p) + 1])

\* The tokens after the count field of a frame without RSSI block.
Carried(p) == Slice(p, CountAt(p) + 1, Len(p))

\* A short frame: it declares more samples than it carries.
Short(p) ==
    /\ HeaderOk(p) /\ ~Contains(p, RSSI1)
    /\ \A k \in 1..Len(Carried(p)) : HexOk(Carried(p)[k])
    /\ Len(Carried(p)) < Declared(p)

\* C22: a frame with fewer range tokens than its declared count is decoded
\* without raising: the available tokens are decoded, the scan has the
\* declared number of samples, those not carried being invalid, and the
\* short frame is flagged.
C22_ShortFramePadded ==
    decoder \in {"pose", "live_reading", "realtime"} /\ Short(telegram) =>
        /\ decoded.status = "scan"
        /\ decoded.tokens = Positions(telegram, CountAt(telegram) + 1, Len(telegram))
        /\ Len(decoded.ranges) + decoded.pad = Declared(telegram)
        /\ \A k \in (Len(Carried(telegram)) + 1)..Len(decoded.ranges) :
               decoded.ranges[k] \in {None, 0}
        /\ decoded.flagged

\* The geometry a frame with a whole header carries, and the nominal one.
WireStart(p) == twos_complement_32(Wide(p[CountAt(p) - 1]))
WireStep(p) == Rat(HexVal(p[CountAt(p)]), 10000)
NominalSteps(p) ==
    {CANON_RES} \cup (IF Declared(p) > 1
                      THEN {RDiv(SPAN_DEG, RInt(Declared(p) - 1))} ELSE {})

\* C23: in a frame that declares more samples than it carries, the i-th
\* available sample keeps the angle start + i * step of the scan's geometry
\* (on the wire, or nominal); the samples are not stretched over the whole
\* field of view.
C23_ShortFrameKeepsAngles ==
    decoder = "pose" /\ Short(telegram) /\ Len(Carried(telegram)) >= 2 =>
        /\ decoded.status = "scan"
        /\ decoded.start \in {WireStart(telegram), WideOf(START_ANGLE[1] * 10000)}
        /\ decoded.step \in {WireStep(telegram)} \cup NominalSteps(telegram)

\* The frame carries at least the declared number of range tokens.
Full(p) ==
    /\ HeaderOk(p)
    /\ Len(p) - (CountAt(p) + 1) >= Declared(p)
    /\ ~Contains(Slice(p, CountAt(p) + 1, CountAt(p) + 1 + Declared(p)), RSSI1)

\* C24: the decoder reads as range data exactly the declared number of
\* tokens after the count field: never a token of the RSSI block, a
\* trailer token before it, or a header token after DIST1.
C24_ExactlyDeclaredTokens ==
    decoder \in {"pose", "realtime"} /\ Full(telegram) =>
        /\ decoded.status = "scan"
        /\ decoded.tokens = Positions(telegram, CountAt(telegram) + 1,
                                      CountAt(telegram) + 1 + Declared(telegram))

\* C25: when the frame carries a well-formed start angle and step, the
\* decoded scan has exactly that geometry: no other token overwrites it and
\* the nominal geometry is used only when the fields are absent.
C25_WireGeometryUsed ==
    /\ decoder \in {"continuous", "live_reading", "pose"}
    /\ HeaderOk(telegram)
    /\ decoded.status = "scan"
    => /\ decoded.start = WireStart(telegram)
       /\ decoded.step = WireStep(telegram)

\* C26: the start-angle token is decoded as a signed 32-bit two's
\* complement number of 1/10000 degree: FFF92230 is -45.0 degrees.  (The
\* decoders that take the start angle at DIST1 + 3 are given the layout
\* with a scale offset.)
C26_StartAngleSigned ==
    /\ \/ decoder \in {"live_data", "para"} /\ layout = "offset"
       \/ decoder = "continuous"
    /\ HeaderOk(telegram)
    /\ decoded.status = "scan"
    => decoded.start = twos_complement_32(Wide(telegram[CountAt(telegram) - 1]))

C28_WorkingSetIsTotal ==
    ipc \in {"icp", "returned"} =>
        src_transformed = [n \in 1..Len(src) |-> Apply3(T, src[n])]

\* The squared distances from the working source set to its nearest
\* neighbours, and the residual the iteration starting now computes from them.
NearestDists ==
    LET idx == CHOOSE i \in NearestChoices(src_transformed, dst) : TRUE
    IN  [n \in 1..Len(src_transformed) |-> Dist2(src_transformed[n], dst[idx[n]])]

TooFewMatches ==
    program = "slam_map" /\ Len(MatchIdx(NearestDists, 1)) < MIN_MATCHES

Residual ==
    IF program = "Lidar_pose"
    THEN MeanOf(NearestDists, KeptIdx(NearestDists))
    ELSE MeanDist(NearestDists, MatchIdx(NearestDists, 1))

\* C29: an ICP call runs at most max_iterations iterations, and when it
\* returns (other than on too few matches) it returns the accumulated
\* transform, the residual computed in the last iteration executed, and the
\* number of iterations executed, between 1 and max_iterations.
C29_ReturnsLastIteration ==
    /\ [](ipc \in {"icp", "returned"} => iter <= max_iterations)
    /\ [][ipc = "icp" /\ ipc' = "returned" /\ (iter = max_iterations \/ ~TooFewMatches) =>
            /\ result'.T = T'
            /\ "iterations" \in DOMAIN result'
            /\ result'.iterations \in 1..max_iterations
            /\ result'.iterations = (IF iter = max_iterations THEN iter ELSE iter + 1)
            /\ result'.error = (IF iter = max_iterations THEN prev_error ELSE Residual)]_vars

(***************************************************************************)
(* Chunking claim.                                                         *)
(***************************************************************************)
\* The extraction loop run on the whole stream, received in one read: the
\* frames it emits and whether it ends in the ValueError.
RECURSIVE OneRead(_, _, _)
OneRead(b, acc, v) ==
    IF ~LoopCond(b) THEN [emitted |-> acc, crashed |-> FALSE]
    ELSE IF ExtractE(b) < 0 THEN [emitted |-> acc, crashed |-> v = "pose"]
    ELSE OneRead(ExtractRest(b), Append(acc, ExtractPacket(b)), v)

\* Every byte has been received and the extraction loop has run on it.
Drained ==
    /\ wire = <<>>
    /\ pc = "recv"
    /\ ~LoopCond(buffer) \/ ExtractE(buffer) < 0

\* C30: the frames the buffered framer emits for a byte stream do not
\* depend on how the stream is cut into reads, empty reads included: every
\* run emits the frames of the one-read run, in the same order, and fails
\* exactly if the one-read run fails.
C30_ChunkingInvariant ==
    LET ref == OneRead(stream, <<>>, variant)
    IN  /\ pc = "crashed" => ref.crashed
        /\ Len(emitted) <= Len(ref.emitted)
        /\ \A i \in 1..Len(emitted) : emitted[i] = ref.emitted[i]
        /\ Drained => emitted = ref.emitted /\ ~ref.crashed
====
